---- MODULE Spec2Model ----
(***************************************************************************)
(* Placeholder speech synthesis and WAV encoding of the Armis TTS helper   *)
(* scripts:                                                                *)
(*   models/inworld-tts-local/local_tts_service.py  (LocalInworldTTS)      *)
(*   models/coqui-xtts/xtts_service.py              (CoquiXTTSService)     *)
(*   models/coqui-xtts/setup.py                     (XTTSSetup)            *)
(*   models/inworld-tts-local/setup.py              (InworldTTSSetup)      *)
(*   download-logos-python.py                       (download_logo)        *)
(*                                                                         *)
(* Floating-point samples are fixed-point integers in units of 1/Scale.    *)
(* Durations are in tenths of a second.  A buffer of n samples is held as  *)
(* its length and its values at the probe indices ProbeIdx(n).             *)
(***************************************************************************)
EXTENDS Integers, Sequences, FiniteSets, TLC

\* ------------------------------------------------------------------ bounds

\* Longest text of a request, in characters (the floor of 2.0 s covers 0..20).
MaxTextLen == 30
\* Number of synthesize / setup calls of one run.
MaxCalls == 2
\* Probe indices per buffer besides the last sample: 0, ProbeStride, 2*ProbeStride, ...
NumProbes == 3
ProbeStride == 117

\* Fixed-point unit: a sample s is the integer s * Scale.
Scale == 10 ^ 4

\* ------------------------------------------------------- integer helpers

Max(a, b) == IF a >= b THEN a ELSE b

Min(a, b) == IF a <= b THEN a ELSE b

Abs(a) == IF a >= 0 THEN a ELSE -a

\* a / b truncated toward zero (C cast of a float to an integer), b > 0.
DivTrunc(a, b) == IF a >= 0 THEN a \div b ELSE -((-a) \div b)

\* a / b rounded to nearest, ties to even (Python round()), b > 0.
DivRound(a, b) ==
    LET q == a \div b
        r == a % b
    IN  IF 2 * r < b THEN q
        ELSE IF 2 * r > b THEN q + 1
        ELSE IF q % 2 = 0 THEN q ELSE q + 1

\* (a * b) % m without leaving 32 bits, 0 <= a < m, b >= 0, 3 * m < 2^31.
RECURSIVE MulMod(_, _, _)
MulMod(a, b, m) ==
    IF b = 0 THEN 0
    ELSE (2 * MulMod(a, b \div 2, m) + (b % 2) * a) % m

RECURSIVE GCD(_, _)
GCD(a, b) == IF b = 0 THEN a ELSE GCD(b, a % b)

\* a / b = c / d for b, d > 0, without leaving 32 bits.
RatEq(a, b, c, d) == a * (d \div GCD(b, d)) = c * (b \div GCD(b, d))

RECURSIVE SumSeq(_)
SumSeq(s) == IF s = << >> THEN 0 ELSE Head(s) + SumSeq(Tail(s))

\* --------------------------------------------------- numpy, in fixed point

\* np.linspace(0, duration, samples)[k] * freq, as a phase in 1/1000 cycle:
\* t_k = duration * k / (samples - 1), duration = dur10 / 10.
Phase(freq, k, samples, dur10) ==
    LET den == 10 * (samples - 1)
        num == MulMod((freq * dur10) % den, k, den)
    IN  (num * 1000) \div den

\* np.sin(2 * pi * cycles) for a phase in 1/1000 cycle (Bhaskara's rational
\* approximation of the half wave, exact at 0, 1/4 and 1/2 cycle).
Sin(phase) ==
    LET half == phase % 500
        w == half * (500 - half)
        v == (1600 * w) \div ((1250000 - 4 * w) \div 100)
    IN  IF phase < 500 THEN v ELSE -v

\* exp(-j/4) * Scale for j = 0..14.
ExpTable == <<10000, 7788, 6065, 4724, 3679, 2865, 2231, 1738, 1353, 1054,
              821, 639, 498, 388, 302>>

\* np.exp(-t / (duration * decay)) at t_k, decay = decay10 / 10: a step
\* function of x = k / ((samples - 1) * decay) with steps of 1/4.
Envelope(k, samples, decay10) ==
    ExpTable[Min((40 * k) \div (decay10 * (samples - 1)), 14) + 1]

\* a * b for fixed-point a, b.
MulFx(a, b) == DivTrunc(a * b, Scale)

\* np.clip(x, lo, hi)
Clip(x, lo, hi) == IF x < lo THEN lo ELSE IF x > hi THEN hi ELSE x

\* The indices of a buffer of n samples that the model holds values for.
ProbeIdx(n) ==
    [j \in 1..(NumProbes + 1) |->
        IF j = NumProbes + 1 THEN n - 1 ELSE ((j - 1) * ProbeStride) % n]

\* ------------------------------------------------------------ identifiers

\* Voice ids are compared only by equality: strings.  Model names of the
\* Inworld service are searched for a substring: sequences of characters.
UpperLetters == <<"A", "B", "C", "D", "E", "F", "G", "H", "I", "J", "K", "L", "M",
                  "N", "O", "P", "Q", "R", "S", "T", "U", "V", "W", "X", "Y", "Z">>

LowerLetters == <<"a", "b", "c", "d", "e", "f", "g", "h", "i", "j", "k", "l", "m",
                  "n", "o", "p", "q", "r", "s", "t", "u", "v", "w", "x", "y", "z">>

\* str.lower()
Lower(s) ==
    [i \in 1..Len(s) |->
        IF \E j \in 1..26 : UpperLetters[j] = s[i]
        THEN LowerLetters[CHOOSE j \in 1..26 : UpperLetters[j] = s[i]]
        ELSE s[i]]

\* sub in s
Contains(sub, s) ==
    \E i \in 0..(Len(s) - Len(sub)) : SubSeq(s, i + 1, i + Len(sub)) = sub

\* ------------------------------------------------------------------ noise

\* np.random.normal(0, std, samples): a draw is any real; the model draws the
\* samples at even and at odd indices as +-MaxSigma * std, of opposite signs.
MaxSigma == 3

NoiseDraws == {<<MaxSigma, -MaxSigma>>, <<-MaxSigma, MaxSigma>>}

NoiseAt(draw, k, std) == draw[(k % 2) + 1] * std

\* ------------------------------------------------------------- inputs

\* Model names given to LocalInworldTTS.synthesize.
NameTts1 == <<"t", "t", "s", "-", "1">>

NameTts1Max == <<"t", "t", "s", "-", "1", "-", "m", "a", "x">>

NameFemale == <<"F", "e", "m", "a", "l", "e", "-", "v", "1">>

NameP225 == <<"p", "2", "2", "5">>

ModelNames == {NameTts1, NameFemale, NameP225}

\* Voice names given to CoquiXTTSService.synthesize.
VoiceNames == {"p225", "p226", "p227", "p228", "p229", "p230", "p999", "x/y"}

\* Languages given to either synthesize.
Languages == {"en", "ja"}

\* len(text) of the texts given to LocalInworldTTS.synthesize.
TextLens == {0, MaxTextLen}

\* ------------------------------- CoquiXTTSService._create_default_reference_audio

XttsSampleRate == 24000

\* duration = 3.0, in tenths of a second
XttsDuration10 == 30

\* samples = int(sample_rate * duration)
XttsSamples == (XttsSampleRate * XttsDuration10) \div 10

XttsBaseFreq(voice_name) ==
    IF voice_name \in {"p225", "p227", "p229"} THEN 220 ELSE 110

XttsFormantFreqsShortList(voice_name) ==
    IF voice_name \in {"p225", "p227"}
    THEN <<500, 1500, 2500, 3500>>
    ELSE <<400, 1200, 2200, 3200>>

XttsFormantFreqs(voice_name) ==
    IF voice_name \in {"p225", "p227", "p229"}
    THEN <<500, 1500, 2500, 3500>>
    ELSE <<400, 1200, 2200, 3200>>

\* amplitude = 0.4 / (i ** 0.8) for i in range(1, 8), rounded to 1/Scale
XttsAmplitude == <<4000, 2297, 1661, 1320, 1104, 954, 843>>

\* The buffer before np.clip, at index k.
XttsPreClip(voice_name, k, draw) ==
    LET n == XttsSamples
        d == XttsDuration10
        base_freq == XttsBaseFreq(voice_name)
        formant_freqs == XttsFormantFreqs(voice_name)
        harmonics == SumSeq([i \in 1..Len(XttsAmplitude) |->
                        MulFx(XttsAmplitude[i], Sin(Phase(base_freq * i, k, n, d)))])
        formants == SumSeq([j \in 1..Len(formant_freqs) |->
                        MulFx(1000, Sin(Phase(formant_freqs[j], k, n, d)))])
    IN  MulFx(harmonics + formants, Envelope(k, n, 4)) + NoiseAt(draw, k, 50)

XttsClipUnit(x) == Clip(x, -10000, 10000)

\* audio_data = np.clip(audio_data, -0.9, 0.9)
XttsClip(x) == Clip(x, -9000, 9000)

XttsSample(voice_name, k, draw) == XttsClip(XttsPreClip(voice_name, k, draw))

\* ------------------------------------------- XTTSSetup.create_reference_audio

SetupVoices == <<"p225", "p226", "p227", "p228", "p229", "p230">>

SetupSampleRate == 24000

SetupDuration10 == 30

SetupSamples == (SetupSampleRate * SetupDuration10) \div 10

SetupBaseFreq(voice) ==
    IF voice \in {"p225", "p227", "p229"} THEN 220 ELSE 110

SetupFormantFreqs(voice) ==
    IF voice \in {"p225", "p227", "p229"}
    THEN <<500, 1500, 2500, 3500>>
    ELSE <<400, 1200, 2200, 3200>>

SetupAmplitudeLinear == [i \in 1..5 |-> 3000 \div i]

\* amplitude = 0.4 / (i ** 0.8) for i in range(1, 8), rounded to 1/Scale
SetupAmplitude == <<4000, 2297, 1661, 1320, 1104, 954, 843>>

SetupPreClip(voice, k, draw) ==
    LET n == SetupSamples
        d == SetupDuration10
        base_freq == SetupBaseFreq(voice)
        formant_freqs == SetupFormantFreqs(voice)
        harmonics == SumSeq([i \in 1..Len(SetupAmplitude) |->
                        MulFx(SetupAmplitude[i], Sin(Phase(base_freq * i, k, n, d)))])
        formants == SumSeq([j \in 1..Len(formant_freqs) |->
                        MulFx(1000, Sin(Phase(formant_freqs[j], k, n, d)))])
    IN  MulFx(harmonics + formants, Envelope(k, n, 4)) + NoiseAt(draw, k, 50)

SetupClip(x) == Clip(x, -9000, 9000)

SetupSample(voice, k, draw) == SetupClip(SetupPreClip(voice, k, draw))

\* ------------------------------------------- LocalInworldTTS._generate_speech

InworldSampleRate == 24000

InworldDurationFloorOne(textLen) == Max(10, textLen)

\* duration = max(2.0, len(text) * 0.1), in tenths of a second
InworldDuration10(textLen) == Max(20, textLen)

InworldSamplesFloorOneSecond(textLen) == (InworldSampleRate * Max(10, textLen)) \div 10

\* samples = int(sample_rate * duration)
InworldSamples(textLen) == (InworldSampleRate * InworldDuration10(textLen)) \div 10

\* base_freq = 220 if 'female' in model_name.lower() else 110
InworldBaseFreq(model_name) ==
    IF Contains(<<"f", "e", "m", "a", "l", "e">>, Lower(model_name)) THEN 220 ELSE 110

\* amplitude = 0.3 / i for i in range(1, 6)
InworldAmplitude == [i \in 1..5 |-> 3000 \div i]

InworldPreClip(textLen, model_name, k, draw) ==
    LET n == InworldSamples(textLen)
        d == InworldDuration10(textLen)
        base_freq == InworldBaseFreq(model_name)
        harmonics == SumSeq([i \in 1..Len(InworldAmplitude) |->
                        MulFx(InworldAmplitude[i], Sin(Phase(base_freq * i, k, n, d)))])
    IN  MulFx(harmonics, Envelope(k, n, 3)) + NoiseAt(draw, k, 100)

InworldClip(x) == Clip(x, -9000, 9000)

InworldSample(textLen, model_name, k, draw) ==
    InworldClip(InworldPreClip(textLen, model_name, k, draw))

\* -------------------------------------------------------------- files

\* A file: its header bytes, the number of data bytes after them and the 16-bit
\* samples at the probe indices (kind "bytes", written byte by byte); or a file
\* written by the soundfile library (kind "sf": frames and rate); or no file.
NoFile == [kind |-> "none", hdr |-> << >>, nbytes |-> 0, pcm |-> << >>,
           frames |-> 0, rate |-> 0]

\* A file that exists and holds no bytes (a fresh temporary file, a file
\* opened with 'wb' and not yet written).
EmptyFile == [NoFile EXCEPT !.kind = "bytes"]

\* sf.write(path, data, samplerate)
SfFile(frames, rate) == [NoFile EXCEPT !.kind = "sf", !.frames = frames, !.rate = rate]

\* len(f.read()) of a file of kind "bytes"
FileSize(f) == Len(f.hdr) + f.nbytes

\* -------------------------------------------- LocalInworldTTS._write_wav_file

\* struct.pack('<I', v) and ('<H', v): w bytes, least significant first.
LE(v, w) == [i \in 1..w |-> (v \div (256 ^ (i - 1))) % 256]

\* The value of the w little-endian bytes of b from offset off (0-based).
RECURSIVE FromLE(_, _, _)
FromLE(b, off, w) ==
    IF w = 0 THEN 0 ELSE b[off + 1] + 256 * FromLE(b, off + 1, w - 1)

\* b'RIFF', b'WAVE', b'fmt ', b'data'
TagRIFF == <<82, 73, 70, 70>>

TagWAVE == <<87, 65, 86, 69>>

TagFmt == <<102, 109, 116, 32>>

TagData == <<100, 97, 116, 97>>

WavHeaderByteRateOfOneByte(sample_rate, audio_bytes_len) ==
    TagRIFF \o LE(36 + audio_bytes_len, 4) \o TagWAVE \o TagFmt
        \o LE(16, 4) \o LE(1, 2) \o LE(1, 2) \o LE(sample_rate, 4)
        \o LE(sample_rate, 4) \o LE(2, 2) \o LE(16, 2)
        \o TagData \o LE(audio_bytes_len, 4)

\* wav_header = struct.pack('<4sI4s4sIHHIIHH4sI', ...)
WavHeader(sample_rate, audio_bytes_len) ==
    TagRIFF \o LE(36 + audio_bytes_len, 4) \o TagWAVE \o TagFmt
        \o LE(16, 4) \o LE(1, 2) \o LE(1, 2) \o LE(sample_rate, 4)
        \o LE(sample_rate * 2, 4) \o LE(2, 2) \o LE(16, 2)
        \o TagData \o LE(audio_bytes_len, 4)

\* (x * 32767): the scaled sample, as the float the cast sees, in 1/Scale.
Scaled(x) == x * 32767

AsInt16Rounded(y) == {DivRound(y, Scale)}

\* .astype(np.int16) of the float y / Scale: truncation toward zero when the
\* result fits 16 bits; otherwise the cast is undefined and the build decides:
\* the low 16 bits of the truncated value, or the "integer indefinite" values.
AsInt16(y) ==
    LET v == DivTrunc(y, Scale)
        low == ((v + 32768) % 65536) - 32768
    IN  IF v >= -32768 /\ v <= 32767 THEN {v} ELSE {low, -32768, 0}

AudioBytesLenOneByte(n) == n

\* len(audio_bytes): .tobytes() of n int16 values
AudioBytesLen(n) == 2 * n

\* What a failed f.write leaves behind the header: nothing, or part of the data.
PartialLens(total) == {0, 2 * (total \div 4)}

\* The int16 buffers the cast can produce from the samples at.
PcmOutcomes(at) ==
    LET vals == UNION {AsInt16(Scaled(at[j])) : j \in 1..Len(at)}
    IN  {p \in [1..Len(at) -> vals] : \A j \in 1..Len(at) : p[j] \in AsInt16(Scaled(at[j]))}

\* What the two f.write calls leave at output_path: the 44 header bytes, then
\* the sample bytes.  A failure of the second write leaves the header and
\* none or a part of the data.
WrittenFile(wav_header, len, pcm, fault) ==
    CASE fault = "write_header" -> {EmptyFile}
      [] fault = "write_data" ->
            {[EmptyFile EXCEPT !.hdr = wav_header, !.nbytes = m,
                               !.pcm = IF m = 0 THEN << >> ELSE <<pcm[1]>>]
                : m \in PartialLens(len)}
      [] OTHER -> {[EmptyFile EXCEPT !.hdr = wav_header, !.nbytes = len, !.pcm = pcm]}

\* _write_wav_file(output_path, audio_data, sample_rate): the file at
\* output_path afterwards and whether the call returned (ok) or raised (the
\* except clause prints and re-raises).  old is the file before, audio the
\* buffer [n, at], fault where the operating system fails the call.
WriteWavFile(old, audio, sample_rate, fault) ==
    LET len == AudioBytesLen(audio.n)
        wav_header == WavHeader(sample_rate, len)
    IN  IF fault = "open"
        THEN {[file |-> old, ok |-> FALSE]}
        ELSE {[file |-> f, ok |-> fault \notin {"write_header", "write_data"}] :
                f \in UNION {WrittenFile(wav_header, len, pcm, fault) :
                                pcm \in PcmOutcomes(audio.at)}}

\* ------------------------------------------------------------ results

NoResult == [kind |-> "none", success |-> FALSE, error |-> "", audio |-> NoFile,
             format |-> "", sample_rate |-> 0, dur_num |-> 0, dur_den |-> 1]

\* return {"success": False, "error": ...}
Failure(error) == [NoResult EXCEPT !.kind = "return", !.error = error]

\* return {"success": True, "audio": ..., "format": ..., "sample_rate": ...,
\*         "duration": dur_num / dur_den}
Success(audio, format, sample_rate, dur_num, dur_den) ==
    [kind |-> "return", success |-> TRUE, error |-> "", audio |-> audio,
     format |-> format, sample_rate |-> sample_rate,
     dur_num |-> dur_num, dur_den |-> dur_den]

\* an exception leaving the method
Raise(error) == [NoResult EXCEPT !.kind = "raise", !.error = error]

\* One buffer handed to a file writer: the call site, the identifier and the
\* parameters it was built from, its length and probe samples, the writer and
\* whether the writer returned.
Handed(site, voice, model_name, base_freq, formant_freqs, n, rate, at, writer, ok) ==
    [site |-> site, voice |-> voice, model_name |-> model_name,
     base_freq |-> base_freq, formant_freqs |-> formant_freqs,
     n |-> n, rate |-> rate, at |-> at, writer |-> writer, ok |-> ok]

\* ------------------------------------------- LocalInworldTTS._generate_speech

\* audio_data after np.clip: the buffer of len(text) = textLen.
InworldAudio(textLen, model_name, draw) ==
    LET n == InworldSamples(textLen)
    IN  [n |-> n,
         at |-> [j \in 1..(NumProbes + 1) |->
                    InworldSample(textLen, model_name, ProbeIdx(n)[j], draw)]]

\* InworldAudio of every input, computed once.
InworldAudioTable ==
    [textLen \in TextLens |-> [model_name \in ModelNames |->
        [draw \in NoiseDraws |-> InworldAudio(textLen, model_name, draw)]]]

WriteFaults == {"open", "write_header", "write_data"}

\* Where a call of LocalInworldTTS.synthesize can be failed from outside.
InworldFaults == {"none", "tmp", "read"} \cup WriteFaults

GenerateSpeechReturnTrue(written) == TRUE

\* try: ... return True / except Exception: return False
GenerateSpeechReturn(written) == written

\* _generate_speech(text, model_name, language, output_path): the file at
\* output_path afterwards, the returned bool and the buffer handed over.
GenerateSpeech(old, textLen, model_name, draw, fault, full) ==
    LET audio == InworldAudioTable[textLen][model_name][draw]
        log(writer, ok) ==
            Handed("inworld", "", model_name, InworldBaseFreq(model_name), << >>,
                   audio.n, InworldSampleRate, audio.at, writer, ok)
    IN  IF full
        THEN \* sf.write(output_path, audio_data, sample_rate)
             IF fault \in WriteFaults
             THEN {[file |-> old, ret |-> GenerateSpeechReturn(FALSE),
                    handed |-> log("sf", FALSE)]}
             ELSE {[file |-> SfFile(audio.n, InworldSampleRate),
                    ret |-> GenerateSpeechReturn(TRUE), handed |-> log("sf", TRUE)]}
        ELSE {[file |-> w.file, ret |-> GenerateSpeechReturn(w.ok),
               handed |-> log("wav", w.ok)] :
                w \in WriteWavFile(old, audio, InworldSampleRate, fault)}

\* ------------------------------------------------ LocalInworldTTS.synthesize

\* GenerateSpeech on a fresh temporary file, of every input, computed once.
GenerateSpeechTable ==
    [textLen \in TextLens |-> [model_name \in ModelNames |->
        [draw \in NoiseDraws |-> [fault \in InworldFaults |-> [full \in BOOLEAN |->
            GenerateSpeech(EmptyFile, textLen, model_name, draw, fault, full)]]]]]

\* sf.read(path): raises unless the file is one the library can decode.
SfReadable(f) == f.kind = "sf"

\* if model_name not in self.models: raise ValueError
ModelKnownAlways(model_name, loaded) == TRUE

ModelKnown(model_name, loaded) == model_name \in loaded

\* synthesize(text, model_name, language): the returned (or raised) result,
\* the temporary file afterwards and the buffers handed to a writer.
\* loaded is self.models, full is FULL_IMPORTS_AVAILABLE.
InworldSynthesize(textLen, model_name, draw, fault, full, loaded) ==
    IF ~ModelKnown(model_name, loaded)
    THEN \* raise ValueError(f"Model {model_name} not found"), before the try
         {[result |-> Raise("Model not found"), file |-> NoFile, wrote |-> << >>]}
    ELSE IF fault = "tmp"
    THEN \* tempfile.NamedTemporaryFile raises inside the try
         {[result |-> Failure("tempfile"), file |-> NoFile, wrote |-> << >>]}
    ELSE {  IF ~g.ret
            THEN [result |-> Failure("Failed to generate speech"),
                  file |-> g.file, wrote |-> <<g.handed>>]
            ELSE IF full
            THEN IF fault = "read" \/ ~SfReadable(g.file)
                 THEN [result |-> Failure("sf.read"), file |-> g.file,
                       wrote |-> <<g.handed>>]
                 ELSE \* audio_data, sample_rate = sf.read(temp_path); sf.write;
                      \* os.unlink(temp_path)
                      [result |-> Success(g.file, "wav", g.file.rate,
                                          g.file.frames, g.file.rate),
                       file |-> NoFile, wrote |-> <<g.handed>>]
            ELSE IF fault = "read"
                 THEN [result |-> Failure("open"), file |-> g.file,
                       wrote |-> <<g.handed>>]
                 ELSE \* sample_rate = 24000;
                      \* "duration": len(audio_bytes) / (sample_rate * 2)
                      [result |-> Success(g.file, "wav", 24000,
                                          FileSize(g.file), 24000 * 2),
                       file |-> g.file, wrote |-> <<g.handed>>]
            : g \in GenerateSpeechTable[textLen][model_name][draw][fault][full] }

\* ------------------------------- CoquiXTTSService._create_default_reference_audio

\* A voice name with a path separator names a file in a directory that
\* mkdir(exist_ok=True) of reference_audio does not create.
PlainName(voice_name) == voice_name # "x/y"

XttsAudio(voice_name, draw) ==
    [n |-> XttsSamples,
     at |-> [j \in 1..(NumProbes + 1) |->
                XttsSample(voice_name, ProbeIdx(XttsSamples)[j], draw)]]

\* XttsAudio of every input, computed once.
XttsAudioTable ==
    [voice_name \in VoiceNames |-> [draw \in NoiseDraws |-> XttsAudio(voice_name, draw)]]

\* _create_default_reference_audio(voice_name): the file at
\* reference_audio/<voice_name>.wav afterwards, whether the call returned,
\* and the buffer handed to sf.write.
CreateDefaultReferenceAudio(old, voice_name, draw, fault) ==
    LET audio == XttsAudioTable[voice_name][draw]
        ok == fault # "ref_write" /\ PlainName(voice_name)
    IN  [file |-> IF ok THEN SfFile(audio.n, XttsSampleRate) ELSE old,
         ok |-> ok,
         handed |-> Handed("xtts", voice_name, << >>, XttsBaseFreq(voice_name),
                           XttsFormantFreqs(voice_name), audio.n, XttsSampleRate,
                           audio.at, "sf", ok)]

\* ----------------------------------------------- CoquiXTTSService.synthesize

\* synthesize(text, voice_name, language, speed): the result, the temporary
\* file and the reference file of voice_name afterwards, the buffers handed
\* to a writer.  ref_file is reference_audio/<voice_name>.wav before the call,
\* tts_len the number of samples model.tts returns.
XttsSynthesize(voice_name, ref_file, tts_len, draw, fault) ==
    LET created == CreateDefaultReferenceAudio(ref_file, voice_name, draw, fault)
        missing == ref_file.kind = "none"
        ref_after == IF missing THEN created.file ELSE ref_file
        wrote == IF missing THEN <<created.handed>> ELSE << >>
    IN  IF fault = "tmp"
        THEN [result |-> Failure("tempfile"), file |-> NoFile,
              ref |-> ref_file, wrote |-> << >>]
        ELSE IF missing /\ ~created.ok
        THEN [result |-> Failure("sf.write"), file |-> EmptyFile,
              ref |-> ref_after, wrote |-> wrote]
        ELSE IF fault = "tts"
        THEN [result |-> Failure("model.tts"), file |-> EmptyFile,
              ref |-> ref_after, wrote |-> wrote]
        ELSE IF fault = "write"
        THEN [result |-> Failure("sf.write"), file |-> EmptyFile,
              ref |-> ref_after, wrote |-> wrote]
        ELSE IF fault = "read"
        THEN [result |-> Failure("sf.read"), file |-> SfFile(tts_len, 24000),
              ref |-> ref_after, wrote |-> wrote]
        ELSE \* sf.write(temp_path, wav, 24000); sf.read; os.unlink(temp_path);
             \* duration = len(audio_data) / sample_rate
             [result |-> Success(SfFile(tts_len, 24000), "wav", 24000, tts_len, 24000),
              file |-> NoFile, ref |-> ref_after, wrote |-> wrote]

\* ------------------------------------------- XTTSSetup.create_reference_audio

SetupAudio(voice, draw) ==
    [n |-> SetupSamples,
     at |-> [j \in 1..(NumProbes + 1) |->
                SetupSample(voice, ProbeIdx(SetupSamples)[j], draw)]]

\* SetupAudio of every input, computed once.
SetupAudioTable ==
    [i \in 1..Len(SetupVoices) |-> [draw \in NoiseDraws |->
        SetupAudio(SetupVoices[i], draw)]]

\* The loop over voices from index i on: files is reference_audio, wrote the
\* buffers handed to sf.write so far; sf.write of the fail_at-th voice raises.
RECURSIVE CreateReferenceLoop(_, _, _, _, _)
CreateReferenceLoop(i, files, wrote, draw, fail_at) ==
    IF i > Len(SetupVoices)
    THEN [ref |-> files, wrote |-> wrote, ret |-> TRUE]
    ELSE LET voice == SetupVoices[i]
             audio == SetupAudioTable[i][draw]
             entry(ok) == Handed("setup", voice, << >>, SetupBaseFreq(voice),
                                 SetupFormantFreqs(voice), audio.n, SetupSampleRate,
                                 audio.at, "sf", ok)
         IN  IF files[voice].kind # "none"
             THEN CreateReferenceLoop(i + 1, files, wrote, draw, fail_at)
             ELSE IF fail_at = i
             THEN \* except Exception: return False
                  [ref |-> files, wrote |-> Append(wrote, entry(FALSE)), ret |-> FALSE]
             ELSE CreateReferenceLoop(i + 1,
                      [files EXCEPT ![voice] = SfFile(audio.n, SetupSampleRate)],
                      Append(wrote, entry(TRUE)), draw, fail_at)

\* A create_reference_audio that writes the file of every voice, whether it
\* exists or not.
CreateReferenceAudioOverwriting(files, draw, fail_at) ==
    LET o == CreateReferenceLoop(1, [v \in DOMAIN files |-> NoFile], << >>,
                                 draw, fail_at)
    IN  [o EXCEPT !.ref = [v \in DOMAIN files |->
                            IF o.ref[v].kind = "none" THEN files[v] ELSE o.ref[v]]]

\* create_reference_audio(): fail_at = 0 is no failure.
CreateReferenceAudio(files, draw, fail_at) ==
    CreateReferenceLoop(1, files, << >>, draw, fail_at)

\* ------------------------------------------------------------- the state

VARIABLES
    fullImports,    \* FULL_IMPORTS_AVAILABLE of local_tts_service.py
    models,         \* LocalInworldTTS.models, its keys
    tmp,            \* the temporary files, by creation number
    ref,            \* models/coqui-xtts/reference_audio/<voice>.wav, by voice
    calls,          \* calls made so far
    last,           \* the last call: its arguments and the buffers it handed over
    result,         \* what the last call returned or raised
    pc,             \* of each request running in a thread: its next statement
    rq,             \* of each such request: its arguments, locals and history
    proc,           \* the process of a service script that runs now or ran last
    setup,          \* the run of run_setup of a setup script
    logo            \* the call of download_logo of download-logos-python.py

vars == <<fullImports, models, tmp, ref, calls, last, result, pc, rq, proc, setup,
          logo>>

\* The state of a run of run_setup.
setupVars == <<setup>>

\* The state of a process of xtts_service.py.
processVars == <<proc>>

\* The state of the requests that run step by step.
threadVars == <<pc, rq>>

\* The requests a host process runs in threads of their own: two.
Requests == {1, 2}

\* A request of CoquiXTTSService.synthesize: voice_name, the statement that
\* is failed from outside, temp_path (0: not yet created), the paths it wrote,
\* the paths it read, the requests that had returned when it began, the
\* statements it executed and what it returned.
NoRequest == [voice |-> "", fault |-> "none", temp |-> 0, wrote |-> {}, used |-> {},
              after |-> {}, events |-> << >>, outcome |-> "none"]

\* Samples model.tts returns (the external model decides).
TtsLens == {36000}

\* Where a call of CoquiXTTSService.synthesize can be failed from outside.
XttsFaults == {"none", "tmp", "ref_write", "tts", "write", "read"}

\* load_models(): the directories of models_dir that hold a config.json, and
\* the default models.
LoadModels(dirs) == dirs \cup {NameTts1, NameTts1Max}

\* The directories of models_dir that hold a config.json.
ModelDirs == {NameFemale}

\* A process of xtts_service.py: where it is, sys.argv, the calls of
\* load_model so far, whether self.model is set, whether load_model raised,
\* the command handlers called and the exit status (-1: running).
NoProcess == [at |-> "none", argv |-> << >>, loads |-> 0, model |-> FALSE,
              load_raised |-> FALSE, handlers |-> << >>, exit |-> -1]

\* A run of run_setup: the script, the index of the next step, the steps run
\* with what each returned, what run_setup returned ("none": running), the
\* success_count and config.json of the Inworld script ("none": no file, else
\* its setup_completed), and the TTS directory of the XTTS script.
NoSetup == [script |-> "none", at |-> 0, ran |-> << >>, ret |-> "none",
            count |-> 0, config |-> "none", repo |-> "none",
            command |-> "none", exit |-> -1,
            results |-> [tts_repository |-> FALSE, dependencies |-> FALSE,
                         tts_installation |-> FALSE, model |-> FALSE,
                         reference_audio |-> FALSE, service_file |-> FALSE]]

NoCall == [op |-> "none", text_len |-> 0, model_name |-> << >>, voice |-> "",
           language |-> "", fault |-> "none", draw |-> <<0, 0>>, tts_len |-> 0,
           temp |-> 0, wrote |-> << >>]

\* A call of download_logo: the index of the URL the loop is at (0: not
\* called), provider_key, what each of provider_info['urls'] answers, the
\* URLs requested so far, those of them that answered 200 and whose file
\* could not be saved, the file names opened for writing so far, the files of
\* output_dir and what the call returned.
NoLogo == [at |-> 0, key |-> "", urls |-> << >>, tried |-> << >>, unsaved |-> {},
           wrote |-> << >>, files |-> {}, ret |-> "none"]

Init ==
    /\ fullImports \in BOOLEAN
    /\ models = LoadModels(ModelDirs)
    /\ tmp = [i \in 1..MaxCalls |-> NoFile]
    /\ ref = [v \in VoiceNames |-> NoFile]
    /\ calls = 0
    /\ last = NoCall
    /\ result = NoResult
    /\ pc = [r \in Requests |-> "idle"]
    /\ rq = [r \in Requests |-> NoRequest]
    /\ proc = NoProcess
    /\ setup = NoSetup
    /\ logo = NoLogo

InworldCallLengthByLanguage ==
    /\ calls < MaxCalls
    /\ \E textLen \in TextLens, model_name \in ModelNames, language \in Languages,
          draw \in NoiseDraws, fault \in InworldFaults :
        \E o \in InworldSynthesize(IF language = "ja" THEN MaxTextLen ELSE textLen,
                                   model_name, draw, fault, fullImports, models) :
            /\ result' = o.result
            /\ tmp' = [tmp EXCEPT ![calls + 1] = o.file]
            /\ last' = [NoCall EXCEPT !.op = "inworld", !.text_len = textLen,
                            !.model_name = model_name, !.language = language,
                            !.fault = fault, !.temp = calls + 1,
                            !.draw = IF o.wrote = << >> THEN NoCall.draw ELSE draw,
                            !.wrote = o.wrote]
    /\ calls' = calls + 1
    /\ UNCHANGED <<fullImports, models, ref>>
    /\ UNCHANGED <<threadVars, processVars, setupVars, logo>>

\* tts_service.synthesize(text, model_name, language)
InworldCall ==
    /\ calls < MaxCalls
    /\ \E textLen \in TextLens, model_name \in ModelNames, language \in Languages,
          draw \in NoiseDraws, fault \in InworldFaults :
        \E o \in InworldSynthesize(textLen, model_name, draw, fault,
                                   fullImports, models) :
            /\ result' = o.result
            /\ tmp' = [tmp EXCEPT ![calls + 1] = o.file]
            /\ last' = [NoCall EXCEPT !.op = "inworld", !.text_len = textLen,
                            !.model_name = model_name, !.language = language,
                            !.fault = fault, !.temp = calls + 1,
                            !.draw = IF o.wrote = << >> THEN NoCall.draw ELSE draw,
                            !.wrote = o.wrote]
    /\ calls' = calls + 1
    /\ UNCHANGED <<fullImports, models, ref>>
    /\ UNCHANGED <<threadVars, processVars, setupVars, logo>>

\* service.synthesize(text, voice_name, language, speed)
XttsCall ==
    /\ calls < MaxCalls
    /\ \E voice_name \in VoiceNames, language \in {"en"}, tts_len \in TtsLens,
          draw \in NoiseDraws, fault \in XttsFaults :
        LET o == XttsSynthesize(voice_name, ref[voice_name], tts_len, draw, fault)
        IN  /\ result' = o.result
            /\ tmp' = [tmp EXCEPT ![calls + 1] = o.file]
            /\ ref' = [ref EXCEPT ![voice_name] = o.ref]
            /\ last' = [NoCall EXCEPT !.op = "xtts", !.voice = voice_name,
                            !.language = language, !.fault = fault,
                            !.draw = IF o.wrote = << >> THEN NoCall.draw ELSE draw,
                            !.tts_len = tts_len, !.temp = calls + 1,
                            !.wrote = o.wrote]
    /\ calls' = calls + 1
    /\ UNCHANGED <<fullImports, models>>
    /\ UNCHANGED <<threadVars, processVars, setupVars, logo>>

\* setup.create_reference_audio()
SetupCall ==
    /\ calls < MaxCalls
    /\ \E draw \in NoiseDraws, fail_at \in 0..Len(SetupVoices) :
        LET o == CreateReferenceAudio(ref, draw, fail_at)
        IN  /\ result' = IF o.ret THEN [NoResult EXCEPT !.kind = "return",
                                                        !.success = TRUE]
                         ELSE Failure("create_reference_audio")
            /\ ref' = o.ref
            /\ last' = [NoCall EXCEPT !.op = "setup",
                            !.draw = IF o.wrote = << >> THEN NoCall.draw ELSE draw,
                            !.fault = IF fail_at = 0 THEN "none" ELSE "ref_write",
                            !.wrote = o.wrote]
    /\ calls' = calls + 1
    /\ UNCHANGED <<fullImports, models, tmp>>
    /\ UNCHANGED <<threadVars, processVars, setupVars, logo>>

Next == InworldCall \/ XttsCall \/ SetupCall

Spec == Init /\ [][Next]_vars

\* ------------------------------ CoquiXTTSService.synthesize, step by step

\* The voices requested in threads.
ThreadVoices == {"p225", "p999", "x/y"}

\* The path of the temporary file created as the id-th of the process.
TempPath(id) == <<"tmp", "", id>>

\* ref_audio_path = self.models_dir / "reference_audio" / f"{voice_name}.wav"
RefPath(voice_name) == <<"ref", voice_name, 0>>

NewTempFileSameName(created) == 1

\* tempfile.NamedTemporaryFile(delete=False): a name no earlier file has.
NewTempFile(created) == created + 1

RefMissingNever(f) == FALSE

\* if not ref_audio_path.exists()
RefMissing(f) == f.kind = "none"

\* One statement of request r was executed.
Step(r, event, next) ==
    /\ pc' = [pc EXCEPT ![r] = next]
    /\ rq' = [rq EXCEPT ![r].events = Append(@, event)]

\* synthesize(text, voice_name, language, speed) is entered; self.model is
\* loaded.
SynthesizeBegin(r) ==
    /\ pc[r] = "idle"
    /\ \E voice_name \in ThreadVoices, fault \in XttsFaults :
        rq' = [rq EXCEPT ![r] = [NoRequest EXCEPT !.voice = voice_name, !.fault = fault,
                    !.after = {q \in Requests : pc[q] = "done"}]]
    /\ pc' = [pc EXCEPT ![r] = "tempfile"]
    /\ UNCHANGED <<fullImports, models, tmp, ref, calls, last, result, proc, setup, logo>>

\* with tempfile.NamedTemporaryFile(...) as tmp_file: temp_path = tmp_file.name
NamedTemporaryFile(r) ==
    /\ pc[r] = "tempfile"
    /\ IF rq[r].fault = "tmp"
       THEN /\ Step(r, "tempfile", "except")
            /\ UNCHANGED <<tmp, calls>>
       ELSE LET id == NewTempFile(calls)
            IN  /\ tmp' = [tmp EXCEPT ![id] = EmptyFile]
                /\ calls' = calls + 1
                /\ pc' = [pc EXCEPT ![r] = "exists"]
                /\ rq' = [rq EXCEPT ![r].temp = id,
                                    ![r].wrote = @ \cup {TempPath(id)},
                                    ![r].events = Append(@, "tempfile")]
    /\ UNCHANGED <<fullImports, models, ref, last, result, proc, setup, logo>>

\* if not ref_audio_path.exists():
RefAudioExists(r) ==
    /\ pc[r] = "exists"
    /\ IF RefMissing(ref[rq[r].voice])
       THEN Step(r, "missing", "create")
       ELSE Step(r, "found", "tts")
    /\ UNCHANGED <<fullImports, models, tmp, ref, calls, last, result, proc, setup, logo>>

\* self._create_default_reference_audio(voice_name)
CreateDefaultReferenceAudioCall(r) ==
    /\ pc[r] = "create"
    /\ \E draw \in NoiseDraws :
        LET voice_name == rq[r].voice
            o == CreateDefaultReferenceAudio(ref[voice_name], voice_name, draw,
                                             rq[r].fault)
        IN  /\ ref' = [ref EXCEPT ![voice_name] = o.file]
            /\ pc' = [pc EXCEPT ![r] = IF o.ok THEN "tts" ELSE "except"]
            /\ rq' = [rq EXCEPT ![r].wrote = IF o.ok THEN @ \cup {RefPath(voice_name)}
                                                     ELSE @,
                                ![r].events = Append(@, "create")]
    /\ UNCHANGED <<fullImports, models, tmp, calls, last, result, proc, setup, logo>>

\* wav = self.model.tts(text=text, speaker_wav=str(ref_audio_path), ...)
ModelTts(r) ==
    /\ pc[r] = "tts"
    /\ pc' = [pc EXCEPT ![r] = IF rq[r].fault = "tts" THEN "except" ELSE "write"]
    /\ rq' = [rq EXCEPT ![r].used = @ \cup {RefPath(rq[r].voice)},
                        ![r].events = Append(@, "tts")]
    /\ UNCHANGED <<fullImports, models, tmp, ref, calls, last, result, proc, setup, logo>>

\* sf.write(temp_path, wav, 24000)
SfWriteTemp(r) ==
    /\ pc[r] = "write"
    /\ IF rq[r].fault = "write"
       THEN /\ Step(r, "write", "except")
            /\ UNCHANGED tmp
       ELSE /\ Step(r, "write", "read")
            /\ \E tts_len \in TtsLens :
                tmp' = [tmp EXCEPT ![rq[r].temp] = SfFile(tts_len, 24000)]
    /\ UNCHANGED <<fullImports, models, ref, calls, last, result, proc, setup, logo>>

\* audio_data, sample_rate = sf.read(temp_path); open(temp_path, 'rb').read()
SfReadTemp(r) ==
    /\ pc[r] = "read"
    /\ pc' = [pc EXCEPT ![r] = IF rq[r].fault = "read" \/ ~SfReadable(tmp[rq[r].temp])
                               THEN "except" ELSE "unlink"]
    /\ rq' = [rq EXCEPT ![r].used = @ \cup {TempPath(rq[r].temp)},
                        ![r].events = Append(@, "read")]
    /\ UNCHANGED <<fullImports, models, tmp, ref, calls, last, result, proc, setup, logo>>

\* os.unlink(temp_path); return {"success": True, ...}
OsUnlink(r) ==
    /\ pc[r] = "unlink"
    /\ tmp' = [tmp EXCEPT ![rq[r].temp] = NoFile]
    /\ pc' = [pc EXCEPT ![r] = "done"]
    /\ rq' = [rq EXCEPT ![r].outcome = "success", ![r].events = Append(@, "unlink")]
    /\ UNCHANGED <<fullImports, models, ref, calls, last, result, proc, setup, logo>>

\* except Exception as e: return {"success": False, "error": str(e)}
SynthesizeExcept(r) ==
    /\ pc[r] = "except"
    /\ pc' = [pc EXCEPT ![r] = "done"]
    /\ rq' = [rq EXCEPT ![r].outcome = "failure", ![r].events = Append(@, "except")]
    /\ UNCHANGED <<fullImports, models, tmp, ref, calls, last, result, proc, setup, logo>>

ThreadNext ==
    \E r \in Requests :
        \/ SynthesizeBegin(r)
        \/ NamedTemporaryFile(r)
        \/ RefAudioExists(r)
        \/ CreateDefaultReferenceAudioCall(r)
        \/ ModelTts(r)
        \/ SfWriteTemp(r)
        \/ SfReadTemp(r)
        \/ OsUnlink(r)
        \/ SynthesizeExcept(r)

\* The requests of one host process, each in a thread, in any interleaving.
ThreadSpec == Init /\ [][ThreadNext]_vars

\* ------------------------------------------------- xtts_service.py, main

\* The voices named on the command line.
MainVoices == {"p226", "p999", "x/y"}

\* sys.argv of xtts_service.py
Argvs ==
    {<<"xtts_service.py">>, <<"xtts_service.py", "synthesize">>,
     <<"xtts_service.py", "synthesize", "text">>}
    \cup {<<"xtts_service.py", c>> :
            c \in {"list_voices", "check_model", "download_model", "status"}}
    \cup {<<"xtts_service.py", "synthesize", "text", v>> : v \in MainVoices}

\* voices = ["p225", "p226", "p227", "p228", "p229", "p230"] of download_model
DownloadVoices == <<"p225", "p226", "p227", "p228", "p229", "p230">>

\* The loop of download_model from index i on: _create_default_reference_audio
\* of each voice, whether its file exists or not; wrote is the buffers handed
\* to sf.write so far; sf.write of the fail_at-th voice raises.
RECURSIVE DownloadLoop(_, _, _, _, _)
DownloadLoop(i, files, wrote, draw, fail_at) ==
    IF i > Len(DownloadVoices)
    THEN [ref |-> files, wrote |-> wrote, ok |-> TRUE]
    ELSE LET voice == DownloadVoices[i]
             o == CreateDefaultReferenceAudio(files[voice], voice, draw,
                        IF fail_at = i THEN "ref_write" ELSE "none")
         IN  IF o.ok
             THEN DownloadLoop(i + 1, [files EXCEPT ![voice] = o.file],
                               Append(wrote, o.handed), draw, fail_at)
             ELSE [ref |-> files, wrote |-> Append(wrote, o.handed), ok |-> FALSE]

\* download_model(): fail_at = 0 is no failure.
DownloadModel(files, draw, fail_at) == DownloadLoop(1, files, << >>, draw, fail_at)

ServiceConstructLazy(load_ok) == [loads |-> 0, model |-> FALSE, raised |-> FALSE]

\* CoquiXTTSService(): __init__ sets self.model = None and calls load_model,
\* which sets self.model or re-raises.
ServiceConstruct(load_ok) == [loads |-> 1, model |-> load_ok, raised |-> ~load_ok]

\* A result that is no audio: {"voices": ...}, {"exists": ...},
\* {"success": True, "message": ...}
Answer == [NoResult EXCEPT !.kind = "return", !.success = TRUE]

\* python xtts_service.py ...: the imports, then main() up to the
\* construction of the service.
MainStart ==
    /\ proc.at \in {"none", "exit"}
    /\ calls < MaxCalls
    /\ \E argv \in Argvs, tts_installed \in BOOLEAN :
        proc' = IF ~tts_installed \/ Len(argv) < 2
                THEN \* except ImportError: sys.exit(1); print("Usage: ..."); sys.exit(1)
                     [NoProcess EXCEPT !.at = "exit", !.argv = argv, !.exit = 1]
                ELSE [NoProcess EXCEPT !.at = "construct", !.argv = argv]
    /\ calls' = calls + 1
    /\ result' = NoResult
    /\ UNCHANGED <<fullImports, models, tmp, ref, last, threadVars, setupVars, logo>>

\* service = CoquiXTTSService()
MainConstruct ==
    /\ proc.at = "construct"
    /\ \E load_ok \in BOOLEAN :
        LET o == ServiceConstruct(load_ok)
        IN  proc' = [proc EXCEPT !.loads = @ + o.loads, !.model = o.model,
                                 !.load_raised = o.raised,
                                 !.at = IF o.raised THEN "exit" ELSE "dispatch",
                                 !.exit = IF o.raised THEN 1 ELSE -1]
    /\ UNCHANGED <<fullImports, models, tmp, ref, calls, last, result, threadVars, setupVars, logo>>

\* The process after a handler returned: print(json.dumps(result)), exit 0.
Handled(name) ==
    [proc EXCEPT !.handlers = Append(@, name), !.at = "exit", !.exit = 0]

\* if command == "list_voices": result = service.list_voices()
MainListVoices ==
    /\ proc.at = "dispatch"
    /\ proc.argv[2] = "list_voices"
    /\ proc' = Handled("list_voices")
    /\ result' = Answer
    /\ UNCHANGED <<fullImports, models, tmp, ref, calls, last, threadVars, setupVars, logo>>

\* elif command == "synthesize": ... result = service.synthesize(text,
\* voice_name, language, speed)
MainSynthesize ==
    /\ proc.at = "dispatch"
    /\ proc.argv[2] = "synthesize"
    /\ IF Len(proc.argv) < 3
       THEN \* print("Usage: ..."); sys.exit(1)
            /\ proc' = [proc EXCEPT !.at = "exit", !.exit = 1]
            /\ UNCHANGED <<tmp, ref, result>>
       ELSE \E tts_len \in TtsLens, draw \in NoiseDraws, fault \in XttsFaults :
            LET voice_name == IF Len(proc.argv) > 3 THEN proc.argv[4] ELSE "p225"
                o == XttsSynthesize(voice_name, ref[voice_name], tts_len, draw, fault)
            IN  IF ~proc.model
                THEN \* raise ValueError("Model not loaded")
                     /\ proc' = [proc EXCEPT !.handlers = Append(@, "synthesize"),
                                             !.at = "exit", !.exit = 1]
                     /\ result' = Raise("Model not loaded")
                     /\ UNCHANGED <<tmp, ref>>
                ELSE /\ proc' = Handled("synthesize")
                     /\ result' = o.result
                     /\ tmp' = [tmp EXCEPT ![calls] = o.file]
                     /\ ref' = [ref EXCEPT ![voice_name] = o.ref]
    /\ UNCHANGED <<fullImports, models, calls, last, threadVars, setupVars, logo>>

\* elif command == "check_model": result = service.check_model_exists()
MainCheckModel ==
    /\ proc.at = "dispatch"
    /\ proc.argv[2] = "check_model"
    /\ proc' = Handled("check_model")
    /\ result' = Answer
    /\ UNCHANGED <<fullImports, models, tmp, ref, calls, last, threadVars, setupVars, logo>>

\* elif command == "download_model": result = service.download_model()
MainDownloadModel ==
    /\ proc.at = "dispatch"
    /\ proc.argv[2] = "download_model"
    /\ \E draw \in NoiseDraws, fail_at \in 0..Len(DownloadVoices) :
        LET o == DownloadModel(ref, draw, fail_at)
        IN  /\ ref' = o.ref
            /\ result' = IF o.ok THEN Answer ELSE Failure("sf.write")
    /\ proc' = Handled("download_model")
    /\ UNCHANGED <<fullImports, models, tmp, calls, last, threadVars, setupVars, logo>>

\* else: print(f"Unknown command: {command}"); sys.exit(1)
MainUnknown ==
    /\ proc.at = "dispatch"
    /\ proc.argv[2] \notin {"list_voices", "synthesize", "check_model", "download_model"}
    /\ proc' = [proc EXCEPT !.at = "exit", !.exit = 1]
    /\ UNCHANGED <<fullImports, models, tmp, ref, calls, last, result, threadVars, setupVars, logo>>

MainNext ==
    \/ MainStart
    \/ MainConstruct
    \/ MainListVoices
    \/ MainSynthesize
    \/ MainCheckModel
    \/ MainDownloadModel
    \/ MainUnknown

\* Processes of xtts_service.py, one after the other, on one file system.
MainSpec == Init /\ [][MainNext]_vars

\* ------------------------- reference_audio: the two writers of <voice>.wav

\* service.download_model() of a constructed CoquiXTTSService
DownloadModelCall ==
    /\ calls < MaxCalls
    /\ \E draw \in NoiseDraws, fail_at \in 0..Len(DownloadVoices) :
        LET o == DownloadModel(ref, draw, fail_at)
        IN  /\ result' = IF o.ok THEN Answer ELSE Failure("sf.write")
            /\ ref' = o.ref
            /\ last' = [NoCall EXCEPT !.op = "download_model",
                            !.draw = IF o.wrote = << >> THEN NoCall.draw ELSE draw,
                            !.fault = IF fail_at = 0 THEN "none" ELSE "ref_write",
                            !.wrote = o.wrote]
    /\ calls' = calls + 1
    /\ UNCHANGED <<fullImports, models, tmp>>
    /\ UNCHANGED <<threadVars, processVars, setupVars, logo>>

ReferenceNext == SetupCall \/ DownloadModelCall

\* Calls of XTTSSetup.create_reference_audio and of
\* CoquiXTTSService.download_model, in any order, on one reference_audio.
ReferenceSpec == Init /\ [][ReferenceNext]_vars

\* ------------------------------- inworld-tts-local/local_tts_service.py, main

\* sys.argv of local_tts_service.py.  The text argument is "" or "text", a
\* text of MaxTextLen characters.
InworldArgvs ==
    {<<"local_tts_service.py">>, <<"local_tts_service.py", "synthesize">>}
    \cup {<<"local_tts_service.py", c>> : c \in {"list_models", "status"}}
    \cup {<<"local_tts_service.py", "synthesize", t>> : t \in {"", "text"}}
    \cup {<<"local_tts_service.py", "synthesize", t, m>> :
            t \in {"", "text"}, m \in {"tts-1", "Female-v1", "p225"}}
    \cup {<<"local_tts_service.py", "synthesize", "text", m, l>> :
            m \in {"tts-1", "Female-v1"}, l \in Languages}

\* len(text) of a text argument
ArgvTextLen(text) == IF text = "" THEN 0 ELSE MaxTextLen

\* The characters of a model_name argument
ArgvModelName(name) ==
    CASE name = "tts-1" -> NameTts1
      [] name = "Female-v1" -> NameFemale
      [] OTHER -> NameP225

\* if len(sys.argv) < 4: usage, sys.exit(1)
SynthesizeUsage(argv) == Len(argv) < 4

\* python local_tts_service.py ...: the imports, then main() up to the
\* construction of the service.
InworldMainStart ==
    /\ proc.at \in {"none", "exit"}
    /\ calls < MaxCalls
    /\ \E argv \in InworldArgvs :
        proc' = IF Len(argv) < 2
                THEN \* print("Usage: ..."); sys.exit(1)
                     [NoProcess EXCEPT !.at = "exit", !.argv = argv, !.exit = 1]
                ELSE [NoProcess EXCEPT !.at = "construct", !.argv = argv]
    /\ calls' = calls + 1
    /\ result' = NoResult
    /\ last' = NoCall
    /\ UNCHANGED <<fullImports, models, tmp, ref, threadVars, setupVars, logo>>

\* tts_service = LocalInworldTTS(): __init__ calls load_models
InworldMainConstruct ==
    /\ proc.at = "construct"
    /\ models' = LoadModels(ModelDirs)
    /\ proc' = [proc EXCEPT !.loads = @ + 1, !.model = TRUE, !.at = "dispatch"]
    /\ UNCHANGED <<fullImports, tmp, ref, calls, last, result, threadVars, setupVars, logo>>

\* if command == "list_models": result = tts_service.list_models()
InworldMainListModels ==
    /\ proc.at = "dispatch"
    /\ proc.argv[2] = "list_models"
    /\ proc' = Handled("list_models")
    /\ result' = Answer
    /\ UNCHANGED <<fullImports, models, tmp, ref, calls, last, threadVars, setupVars, logo>>

\* elif command == "synthesize": usage and sys.exit(1), or
\* result = tts_service.synthesize(text, model_name, language)
InworldMainSynthesize ==
    /\ proc.at = "dispatch"
    /\ proc.argv[2] = "synthesize"
    /\ IF SynthesizeUsage(proc.argv)
       THEN /\ proc' = [proc EXCEPT !.at = "exit", !.exit = 1]
            /\ UNCHANGED <<tmp, last, result>>
       ELSE \E draw \in NoiseDraws, fault \in InworldFaults :
            LET textLen == ArgvTextLen(proc.argv[3])
                model_name == IF Len(proc.argv) > 3 THEN ArgvModelName(proc.argv[4])
                              ELSE NameTts1
                language == IF Len(proc.argv) > 4 THEN proc.argv[5] ELSE "en"
            IN  \E o \in InworldSynthesize(textLen, model_name, draw, fault,
                                           fullImports, models) :
                    /\ result' = o.result
                    /\ tmp' = [tmp EXCEPT ![calls] = o.file]
                    /\ last' = [NoCall EXCEPT !.op = "inworld", !.text_len = textLen,
                                    !.model_name = model_name, !.language = language,
                                    !.fault = fault, !.temp = calls,
                                    !.draw = IF o.wrote = << >> THEN NoCall.draw ELSE draw,
                                    !.wrote = o.wrote]
                    /\ proc' = IF o.result.kind = "raise"
                               THEN \* ValueError, caught by nobody
                                    [proc EXCEPT !.handlers = Append(@, "synthesize"),
                                                 !.at = "exit", !.exit = 1]
                               ELSE Handled("synthesize")
    /\ UNCHANGED <<fullImports, models, ref, calls, threadVars, setupVars, logo>>

\* else: print(f"Unknown command: {command}"); sys.exit(1)
InworldMainUnknown ==
    /\ proc.at = "dispatch"
    /\ proc.argv[2] \notin {"list_models", "synthesize"}
    /\ proc' = [proc EXCEPT !.at = "exit", !.exit = 1]
    /\ UNCHANGED <<fullImports, models, tmp, ref, calls, last, result, threadVars, setupVars, logo>>

InworldMainNext ==
    \/ InworldMainStart
    \/ InworldMainConstruct
    \/ InworldMainListModels
    \/ InworldMainSynthesize
    \/ InworldMainUnknown

\* Processes of local_tts_service.py, one after the other, on one file system.
InworldMainSpec == Init /\ [][InworldMainNext]_vars

\* --------------------------------------- coqui-xtts/setup.py, run_setup

\* The steps of XTTSSetup.run_setup, in the order of its if statements.
XttsSteps == <<"clone_tts_repository", "install_dependencies",
               "install_tts_from_source", "download_xtts_model_from_huggingface",
               "create_reference_audio", "create_local_tts_service">>

\* What git clone or pip does: it succeeds, exits with another status than 0,
\* or the program is not found.
Commands == {"ok", "fails", "missing"}

\* clone_tts_repository(): an existing TTS directory is removed first (rmtree
\* may raise), then git clone creates it or fails.
CloneTtsRepository(repo, rmtree_ok, git) ==
    IF repo # "none" /\ ~rmtree_ok
    THEN [ret |-> "raise", repo |-> repo]
    ELSE IF git = "ok"
    THEN [ret |-> "true", repo |-> "new"]
    ELSE [ret |-> "false", repo |-> "none"]

\* install_dependencies(): writes requirements.txt, runs pip install -r.
InstallDependencies(pip) == IF pip = "ok" THEN "true" ELSE "false"

\* install_tts_from_source(): runs pip install -e.
InstallTtsFromSource(pip) == IF pip = "ok" THEN "true" ELSE "false"

\* download_xtts_model_from_huggingface(): snapshot_download; except
\* Exception: return False
DownloadXttsModelFromHuggingface(downloaded) == IF downloaded THEN "true" ELSE "false"

\* create_local_tts_service(): returns True whether the file exists or not.
XttsCreateLocalTtsService == "true"

StopAtFalseNever(ok) == FALSE

\* if not self.step(): return False
StopAtFalse(ok) == ~ok

\* run_setup after its step number i returned (or raised) ret.
XttsAfterStep(i, ret) ==
    [setup EXCEPT !.ran = Append(@, [step |-> XttsSteps[i], ok |-> ret = "true"]),
                  !.at = i + 1,
                  !.ret = IF ret = "raise" THEN "raise"
                          ELSE IF StopAtFalse(ret = "true") THEN "false"
                          ELSE IF i = Len(XttsSteps) THEN "true"
                          ELSE "none"]

\* setup = XTTSSetup(); setup.run_setup()
XttsRunSetup ==
    /\ setup.script = "none"
    /\ \E repo \in {"none", "old"} :
        setup' = [NoSetup EXCEPT !.script = "xtts", !.at = 1, !.repo = repo]
    /\ UNCHANGED <<fullImports, models, tmp, ref, calls, last, result,
                   threadVars, processVars, logo>>

XttsStepEnabled(i) == setup.script = "xtts" /\ setup.ret = "none" /\ setup.at = i

\* if not self.clone_tts_repository(): return False
XttsCloneStep ==
    /\ XttsStepEnabled(1)
    /\ \E rmtree_ok \in BOOLEAN, git \in Commands :
        LET o == CloneTtsRepository(setup.repo, rmtree_ok, git)
        IN  setup' = [XttsAfterStep(1, o.ret) EXCEPT !.repo = o.repo]
    /\ UNCHANGED <<fullImports, models, tmp, ref, calls, last, result,
                   threadVars, processVars, logo>>

\* if not self.install_dependencies(): return False
XttsInstallDependenciesStep ==
    /\ XttsStepEnabled(2)
    /\ \E pip \in Commands \ {"missing"} :
        setup' = XttsAfterStep(2, InstallDependencies(pip))
    /\ UNCHANGED <<fullImports, models, tmp, ref, calls, last, result,
                   threadVars, processVars, logo>>

\* if not self.install_tts_from_source(): return False
XttsInstallTtsStep ==
    /\ XttsStepEnabled(3)
    /\ \E pip \in Commands \ {"missing"} :
        setup' = XttsAfterStep(3, InstallTtsFromSource(pip))
    /\ UNCHANGED <<fullImports, models, tmp, ref, calls, last, result,
                   threadVars, processVars, logo>>

\* if not self.download_xtts_model_from_huggingface(): return False
XttsDownloadModelStep ==
    /\ XttsStepEnabled(4)
    /\ \E downloaded \in BOOLEAN :
        setup' = XttsAfterStep(4, DownloadXttsModelFromHuggingface(downloaded))
    /\ UNCHANGED <<fullImports, models, tmp, ref, calls, last, result,
                   threadVars, processVars, logo>>

\* if not self.create_reference_audio(): return False
XttsCreateReferenceAudioStep ==
    /\ XttsStepEnabled(5)
    /\ \E draw \in NoiseDraws, fail_at \in 0..Len(SetupVoices) :
        LET o == CreateReferenceAudio(ref, draw, fail_at)
        IN  /\ ref' = o.ref
            /\ setup' = XttsAfterStep(5, IF o.ret THEN "true" ELSE "false")
    /\ UNCHANGED <<fullImports, models, tmp, calls, last, result,
                   threadVars, processVars, logo>>

\* if not self.create_local_tts_service(): return False; return True
XttsCreateServiceStep ==
    /\ XttsStepEnabled(6)
    /\ setup' = XttsAfterStep(6, XttsCreateLocalTtsService)
    /\ UNCHANGED <<fullImports, models, tmp, ref, calls, last, result,
                   threadVars, processVars, logo>>

\* ---------------------------------- inworld-tts-local/setup.py, run_setup

\* steps = [("Python Version Check", self.check_python_version), ...]
InworldSteps == <<"Python Version Check", "GPU Check", "Install Dependencies",
                  "Download Inworld TTS", "Download Models",
                  "Create Local Service", "Create Config">>

\* sys.version_info: major and minor
Versions == {<<2, 7>>, <<3, 8>>, <<3, 9>>, <<3, 12>>}

\* check_python_version()
CheckPythonVersion(version) ==
    ~(version[1] < 3 \/ (version[1] = 3 /\ version[2] < 9))

\* check_gpu(): False without torch and without CUDA
CheckGpu(torch_installed, cuda) == torch_installed /\ cuda

\* install_requirements(): False without requirements.txt, else the outcome
\* of pip install -r
InstallRequirements(requirements_exists, pip) == requirements_exists /\ pip = "ok"

\* download_inworld_tts(): True if the directory exists, else the outcome of
\* git clone
DownloadInworldTts(tts_dir_exists, git) == tts_dir_exists \/ git = "ok"

\* download_models(): success_count > 0 over tts-1 and tts-1-max; have is the
\* set of the two whose directory exists or whose download succeeds.
DownloadModels(have) == Cardinality(have) > 0

\* if success_count >= len(steps) - 2
SetupCompleted(success_count, steps) == success_count >= steps - 2

\* A loop that leaves run_setup at the first step that returns False.
InworldAfterStepStopAtFalse(i, ok) ==
    [setup EXCEPT !.ran = Append(@, [step |-> InworldSteps[i], ok |-> ok]),
                  !.at = i + 1,
                  !.count = IF ok THEN @ + 1 ELSE @,
                  !.ret = IF ok THEN @ ELSE "false"]

\* for step_name, step_func in steps: the body of the loop, step_func having
\* returned ok.
InworldAfterStep(i, ok) ==
    [setup EXCEPT !.ran = Append(@, [step |-> InworldSteps[i], ok |-> ok]),
                  !.at = i + 1,
                  !.count = IF ok THEN @ + 1 ELSE @]

\* for step_name, step_func in steps: step_func raised.
InworldStepRaised(i) ==
    [setup EXCEPT !.ran = Append(@, [step |-> InworldSteps[i], ok |-> FALSE]),
                  !.at = i + 1, !.ret = "raise"]

\* setup = InworldTTSSetup(); setup.run_setup()
InworldRunSetup ==
    /\ setup.script = "none"
    /\ \E config \in {"none", "false", "true"} :
        setup' = [NoSetup EXCEPT !.script = "inworld", !.at = 1, !.config = config]
    /\ UNCHANGED <<fullImports, models, tmp, ref, calls, last, result,
                   threadVars, processVars, logo>>

InworldStepEnabled(i) == setup.script = "inworld" /\ setup.ret = "none" /\ setup.at = i

InworldCheckPythonStep ==
    /\ InworldStepEnabled(1)
    /\ \E version \in Versions : setup' = InworldAfterStep(1, CheckPythonVersion(version))
    /\ UNCHANGED <<fullImports, models, tmp, ref, calls, last, result,
                   threadVars, processVars, logo>>

InworldCheckGpuStep ==
    /\ InworldStepEnabled(2)
    /\ \E torch_installed \in BOOLEAN, cuda \in BOOLEAN :
        setup' = InworldAfterStep(2, CheckGpu(torch_installed, cuda))
    /\ UNCHANGED <<fullImports, models, tmp, ref, calls, last, result,
                   threadVars, processVars, logo>>

InworldInstallStep ==
    /\ InworldStepEnabled(3)
    /\ \E requirements_exists \in BOOLEAN, pip \in Commands :
        setup' = InworldAfterStep(3, InstallRequirements(requirements_exists, pip))
    /\ UNCHANGED <<fullImports, models, tmp, ref, calls, last, result,
                   threadVars, processVars, logo>>

InworldCloneStep ==
    /\ InworldStepEnabled(4)
    /\ \E tts_dir_exists \in BOOLEAN, git \in Commands :
        setup' = InworldAfterStep(4, DownloadInworldTts(tts_dir_exists, git))
    /\ UNCHANGED <<fullImports, models, tmp, ref, calls, last, result,
                   threadVars, processVars, logo>>

InworldDownloadModelsStep ==
    /\ InworldStepEnabled(5)
    /\ \E have \in SUBSET {NameTts1, NameTts1Max} :
        setup' = InworldAfterStep(5, DownloadModels(have))
    /\ UNCHANGED <<fullImports, models, tmp, ref, calls, last, result,
                   threadVars, processVars, logo>>

\* create_local_tts_service(): writes local_tts_service.py and returns True,
\* or the write raises.
InworldCreateServiceStep ==
    /\ InworldStepEnabled(6)
    /\ \E written \in BOOLEAN :
        setup' = IF written THEN InworldAfterStep(6, TRUE) ELSE InworldStepRaised(6)
    /\ UNCHANGED <<fullImports, models, tmp, ref, calls, last, result,
                   threadVars, processVars, logo>>

\* create_config(): writes config.json with setup_completed False and
\* returns True, or the write raises.
InworldCreateConfigStep ==
    /\ InworldStepEnabled(7)
    /\ \E written \in BOOLEAN :
        setup' = IF written
                 THEN [InworldAfterStep(7, TRUE) EXCEPT !.config = "false"]
                 ELSE InworldStepRaised(7)
    /\ UNCHANGED <<fullImports, models, tmp, ref, calls, last, result,
                   threadVars, processVars, logo>>

\* After the loop: config.json is read, setup_completed set and the file
\* written back, return True; or return False.
InworldFinish ==
    /\ InworldStepEnabled(Len(InworldSteps) + 1)
    /\ setup' = IF SetupCompleted(setup.count, Len(InworldSteps))
                THEN [setup EXCEPT !.config = "true", !.ret = "true"]
                ELSE [setup EXCEPT !.ret = "false"]
    /\ UNCHANGED <<fullImports, models, tmp, ref, calls, last, result,
                   threadVars, processVars, logo>>

\* ------------------------------------------- coqui-xtts/setup.py, main

\* sys.argv[1] of setup.py
XttsCommands == {"clone_repo", "install_deps", "install_tts", "download_model",
                 "create_audio", "setup", "check"}

\* check_setup(): the six entries of results, False unless the check passes.
CheckSetup(repo, deps, tts, model_dir, ref_dir_exists, wavs, service_file) ==
    [tts_repository |-> repo # "none",
     dependencies |-> deps,
     tts_installation |-> tts,
     model |-> model_dir = "files",
     reference_audio |-> ref_dir_exists /\ wavs >= Len(SetupVoices),
     service_file |-> service_file]

\* all(results.values())
AllOk(results) == \A k \in DOMAIN results : results[k]

ExitStatusZero(success) == 0

\* sys.exit(0 if success else 1)
ExitStatus(success) == IF success THEN 0 ELSE 1

\* The status of the process after the method of a command returned ret or
\* raised: an exception nobody catches ends the interpreter with status 1.
XttsMainExit(ret) == IF ret = "raise" THEN 1 ELSE ExitStatus(ret = "true")

\* main() after the method `step` of command returned ret: the process is over.
XttsMainDone(command, step, ret) ==
    [NoSetup EXCEPT !.script = "xtts_main", !.command = command,
                    !.ran = <<[step |-> step, ok |-> ret = "true"]>>,
                    !.ret = ret, !.exit = XttsMainExit(ret)]

\* if len(sys.argv) < 2: usage, sys.exit(1)
XttsMainUsage ==
    /\ setup.script = "none"
    /\ setup' = [NoSetup EXCEPT !.script = "xtts_main", !.command = "", !.exit = 1]
    /\ UNCHANGED <<fullImports, models, tmp, ref, calls, last, result,
                   threadVars, processVars, logo>>

\* command == "clone_repo"
XttsMainCloneRepo ==
    /\ setup.script = "none"
    /\ \E repo \in {"none", "old"}, rmtree_ok \in BOOLEAN, git \in Commands :
        LET o == CloneTtsRepository(repo, rmtree_ok, git)
        IN  setup' = [XttsMainDone("clone_repo", "clone_tts_repository", o.ret)
                        EXCEPT !.repo = o.repo]
    /\ UNCHANGED <<fullImports, models, tmp, ref, calls, last, result,
                   threadVars, processVars, logo>>

\* command == "install_deps"
XttsMainInstallDeps ==
    /\ setup.script = "none"
    /\ \E pip \in Commands \ {"missing"} :
        setup' = XttsMainDone("install_deps", "install_dependencies",
                              InstallDependencies(pip))
    /\ UNCHANGED <<fullImports, models, tmp, ref, calls, last, result,
                   threadVars, processVars, logo>>

\* command == "install_tts"
XttsMainInstallTts ==
    /\ setup.script = "none"
    /\ \E pip \in Commands \ {"missing"} :
        setup' = XttsMainDone("install_tts", "install_tts_from_source",
                              InstallTtsFromSource(pip))
    /\ UNCHANGED <<fullImports, models, tmp, ref, calls, last, result,
                   threadVars, processVars, logo>>

\* command == "download_model"
XttsMainDownloadModel ==
    /\ setup.script = "none"
    /\ \E downloaded \in BOOLEAN :
        setup' = XttsMainDone("download_model", "download_xtts_model_from_huggingface",
                              DownloadXttsModelFromHuggingface(downloaded))
    /\ UNCHANGED <<fullImports, models, tmp, ref, calls, last, result,
                   threadVars, processVars, logo>>

\* command == "create_audio"
XttsMainCreateAudio ==
    /\ setup.script = "none"
    /\ \E draw \in NoiseDraws, fail_at \in 0..Len(SetupVoices) :
        LET o == CreateReferenceAudio(ref, draw, fail_at)
        IN  /\ ref' = o.ref
            /\ setup' = XttsMainDone("create_audio", "create_reference_audio",
                                     IF o.ret THEN "true" ELSE "false")
    /\ UNCHANGED <<fullImports, models, tmp, calls, last, result,
                   threadVars, processVars, logo>>

\* command == "setup": success = setup.run_setup()
XttsMainSetup ==
    /\ setup.script = "none"
    /\ \E repo \in {"none", "old"} :
        setup' = [NoSetup EXCEPT !.script = "xtts", !.command = "setup",
                                 !.at = 1, !.repo = repo]
    /\ UNCHANGED <<fullImports, models, tmp, ref, calls, last, result,
                   threadVars, processVars, logo>>

\* command == "setup": sys.exit(0 if success else 1), or run_setup raised.
XttsMainSetupExit ==
    /\ setup.script = "xtts" /\ setup.command = "setup"
    /\ setup.ret # "none" /\ setup.exit = -1
    /\ setup' = [setup EXCEPT !.exit = XttsMainExit(setup.ret)]
    /\ UNCHANGED <<fullImports, models, tmp, ref, calls, last, result,
                   threadVars, processVars, logo>>

\* command == "check": results = setup.check_setup(); all_ok
XttsMainCheck ==
    /\ setup.script = "none"
    /\ \E repo \in {"none", "old"}, deps \in BOOLEAN, tts \in BOOLEAN,
          model_dir \in {"none", "empty", "files"}, ref_dir_exists \in BOOLEAN,
          wavs \in {0, Len(SetupVoices) - 1, Len(SetupVoices), Len(SetupVoices) + 1},
          service_file \in BOOLEAN :
        LET results == CheckSetup(repo, deps, tts, model_dir, ref_dir_exists,
                                  wavs, service_file)
        IN  setup' = [NoSetup EXCEPT !.script = "xtts_main", !.command = "check",
                                     !.repo = repo, !.results = results,
                                     !.exit = ExitStatus(AllOk(results))]
    /\ UNCHANGED <<fullImports, models, tmp, ref, calls, last, result,
                   threadVars, processVars, logo>>

\* else: print Unknown command, sys.exit(1)
XttsMainUnknown ==
    /\ setup.script = "none"
    /\ \E command \in {"bogus", "run_setup"} :
        setup' = [NoSetup EXCEPT !.script = "xtts_main", !.command = command,
                                 !.exit = 1]
    /\ UNCHANGED <<fullImports, models, tmp, ref, calls, last, result,
                   threadVars, processVars, logo>>

SetupNext ==
    \/ XttsRunSetup
    \/ XttsMainUsage
    \/ XttsMainCloneRepo
    \/ XttsMainInstallDeps
    \/ XttsMainInstallTts
    \/ XttsMainDownloadModel
    \/ XttsMainCreateAudio
    \/ XttsMainSetup
    \/ XttsMainSetupExit
    \/ XttsMainCheck
    \/ XttsMainUnknown
    \/ XttsCloneStep
    \/ XttsInstallDependenciesStep
    \/ XttsInstallTtsStep
    \/ XttsDownloadModelStep
    \/ XttsCreateReferenceAudioStep
    \/ XttsCreateServiceStep
    \/ InworldRunSetup
    \/ InworldCheckPythonStep
    \/ InworldCheckGpuStep
    \/ InworldInstallStep
    \/ InworldCloneStep
    \/ InworldDownloadModelsStep
    \/ InworldCreateServiceStep
    \/ InworldCreateConfigStep
    \/ InworldFinish

\* One run of run_setup of one of the two setup scripts.
SetupSpec == Init /\ [][SetupNext]_vars

\* ---------------------------------- download-logos-python.py, download_logo

\* Most URLs of one provider (every entry of PROVIDERS has three).
MaxUrls == 3

\* provider_key
ProviderKeys == {"openai"}

\* response.headers.get('content-type', ''): sequences of characters, searched
\* for a substring.
CtPng == <<"i", "m", "a", "g", "e", "/", "p", "n", "g">>

CtSvg == <<"i", "m", "a", "g", "e", "/", "s", "v", "g", "+", "x", "m", "l">>

CtIcon == <<"i", "m", "a", "g", "e", "/", "x", "-", "i", "c", "o", "n">>

CtHtml == <<"t", "e", "x", "t", "/", "h", "t", "m", "l">>

\* What requests.get(url, timeout=10, ...) does: it raises (timeout, refused
\* connection, no such host) or returns a response.
GetRaises == [raises |-> TRUE, status_code |-> 0, content_type |-> << >>]

Response(status_code, content_type) ==
    [raises |-> FALSE, status_code |-> status_code, content_type |-> content_type]

Responses ==
    {GetRaises, Response(404, CtHtml)}
    \cup {Response(200, ct) : ct \in {CtPng, CtSvg, CtIcon, CtHtml}}

\* What open(filepath, 'wb') and f.write(response.content) do: both succeed,
\* open raises (no file), or write raises (the file is there, cut short).
WriteOutcomes == {"ok", "open", "write"}

\* if 'png' in content_type: ... elif 'svg' ... elif 'ico' ... else 'png'
Extension(content_type) ==
    IF Contains(<<"p", "n", "g">>, content_type) THEN "png"
    ELSE IF Contains(<<"s", "v", "g">>, content_type) THEN "svg"
    ELSE IF Contains(<<"i", "c", "o">>, content_type) THEN "ico"
    ELSE "png"

\* filename = f"{provider_key}.{ext}"
Filename(provider_key, ext) == <<provider_key, ext>>

\* download_logo(provider_key, provider_info, output_dir) is called.
DownloadLogo ==
    /\ logo.at = 0
    /\ \E provider_key \in ProviderKeys, n \in 1..MaxUrls :
        \E urls \in [1..n -> Responses] :
            logo' = [NoLogo EXCEPT !.at = 1, !.key = provider_key, !.urls = urls]
    /\ UNCHANGED <<fullImports, models, tmp, ref, calls, last, result,
                   threadVars, processVars, setupVars>>

\* for i, url in enumerate(urls): the loop is at its i-th URL (from 1).
LogoAt(i) == logo.ret = "none" /\ logo.at = i /\ i \in DOMAIN logo.urls

\* A handler that returns False at the first exception.
ExceptExceptionReturns(l, i) == [l EXCEPT !.ret = "false"]

\* except Exception: if i == len(urls) - 1: return False; continue
ExceptException(l, i) ==
    IF i = Len(l.urls) THEN [l EXCEPT !.ret = "false"] ELSE [l EXCEPT !.at = i + 1]

\* The loop goes on after an iteration that neither returned nor raised;
\* after the last URL: return False.
NextUrl(l, i) ==
    IF i = Len(l.urls) THEN [l EXCEPT !.ret = "false", !.at = i + 1]
    ELSE [l EXCEPT !.at = i + 1]

\* requests.get raises.
LogoGetRaises ==
    /\ \E i \in 1..MaxUrls :
        /\ LogoAt(i)
        /\ logo.urls[i].raises
        /\ logo' = ExceptException([logo EXCEPT !.tried = Append(@, i)], i)
    /\ UNCHANGED <<fullImports, models, tmp, ref, calls, last, result,
                   threadVars, processVars, setupVars>>

\* response.status_code is not 200.
LogoStatusNot200 ==
    /\ \E i \in 1..MaxUrls :
        /\ LogoAt(i)
        /\ ~logo.urls[i].raises /\ logo.urls[i].status_code # 200
        /\ logo' = NextUrl([logo EXCEPT !.tried = Append(@, i)], i)
    /\ UNCHANGED <<fullImports, models, tmp, ref, calls, last, result,
                   threadVars, processVars, setupVars>>

\* if response.status_code == 200: the extension, open, f.write, return True;
\* open and f.write are inside the try.
LogoStatus200 ==
    /\ \E i \in 1..MaxUrls, w \in WriteOutcomes :
        /\ LogoAt(i)
        /\ ~logo.urls[i].raises /\ logo.urls[i].status_code = 200
        /\ LET filename == Filename(logo.key, Extension(logo.urls[i].content_type))
               requested == [logo EXCEPT !.tried = Append(@, i)]
               opened == [requested EXCEPT
                            !.wrote = Append(@, filename),
                            !.files = {f \in @ : f.name # filename}
                                      \cup {[name |-> filename, whole |-> w = "ok"]}]
           IN  logo' = CASE w = "ok" -> [opened EXCEPT !.ret = "true"]
                         [] w = "open" ->
                                ExceptException([requested EXCEPT !.unsaved = @ \cup {i}], i)
                         [] w = "write" ->
                                ExceptException([opened EXCEPT !.unsaved = @ \cup {i}], i)
    /\ UNCHANGED <<fullImports, models, tmp, ref, calls, last, result,
                   threadVars, processVars, setupVars>>

LogoNext ==
    \/ DownloadLogo
    \/ LogoGetRaises
    \/ LogoStatusNot200
    \/ LogoStatus200

\* One call of download_logo, one iteration of its loop at a time.
LogoSpec == Init /\ [][LogoNext]_vars

\* ------------------------------------------------------------ properties

\* The buffers the last call handed to a file writer.
HandedNow == {last.wrote[i] : i \in 1..Len(last.wrote)}

\* The files written sample by sample that exist now.
ByteFiles == {tmp[t] : t \in {u \in DOMAIN tmp : tmp[u].kind = "bytes"}}

\* The buffer before clipping, at the probes, as the call site computed it.
PreClipOf(e) ==
    [j \in 1..(NumProbes + 1) |->
        CASE e.site = "xtts" -> XttsPreClip(e.voice, ProbeIdx(e.n)[j], last.draw)
          [] e.site = "setup" -> SetupPreClip(e.voice, ProbeIdx(e.n)[j], last.draw)
          [] OTHER -> InworldPreClip(last.text_len, e.model_name,
                                     ProbeIdx(e.n)[j], last.draw)]

\* C1: at each of the three call sites every sample of the buffer handed to
\* the file writer lies in [-0.9, 0.9], and every 16-bit value _write_wav_file
\* stores lies in [-29490, 29490].
C1_AmplitudeBound ==
    /\ \A e \in HandedNow : \A j \in DOMAIN e.at : e.at[j] >= -9000 /\ e.at[j] <= 9000
    /\ \A f \in ByteFiles : \A j \in DOMAIN f.pcm : f.pcm[j] >= -29490 /\ f.pcm[j] <= 29490

\* A buffer whose unclipped signal left [-0.9, 0.9] was handed over, and a
\* file of _write_wav_file holds its samples.
C1_Witness ==
    /\ \E e \in HandedNow : \E j \in DOMAIN e.at : Abs(PreClipOf(e)[j]) > 9000
    /\ \E f \in ByteFiles : Len(f.pcm) = NumProbes + 1

\* C2: the generated buffer has exactly round(sample_rate * duration_seconds)
\* samples, with the duration after the floor of 2.0 s: 48000 samples for the
\* empty text, 72000 for a duration of 3.0 s.
C2_BufferLength ==
    \A e \in HandedNow :
        /\ e.site = "inworld" =>
            /\ e.n = DivRound(24000 * Max(20, last.text_len), 10)
            /\ last.text_len = 0 => e.n = 48000
            /\ last.text_len = 30 => e.n = 72000
        /\ e.site \in {"xtts", "setup"} => e.n = 72000
        /\ Len(e.at) = Len(ProbeIdx(e.n))

\* The empty text was synthesized and its buffer handed to a writer.
C2_Witness ==
    /\ last.op = "inworld"
    /\ last.text_len = 0
    /\ \E e \in HandedNow : e.n = 48000

\* C3: p225, p227, p229 get base frequency 220 Hz and formants
\* [500,1500,2500,3500]; p226, p228, p230 and every other id get 110 Hz and
\* [400,1200,2200,3200]; base frequency and formants are never of different
\* groups (the two reference-audio call sites).
C3_GroupMapping ==
    \A e \in HandedNow :
        e.site \in {"xtts", "setup"} =>
            IF e.voice \in {"p225", "p227", "p229"}
            THEN e.base_freq = 220 /\ e.formant_freqs = <<500, 1500, 2500, 3500>>
            ELSE e.base_freq = 110 /\ e.formant_freqs = <<400, 1200, 2200, 3200>>

\* An unrecognized voice got its reference audio while p229 has one already.
C3_Witness ==
    /\ last.op = "xtts"
    /\ \E e \in HandedNow : e.voice = "p999" /\ e.ok
    /\ ref["p229"].kind = "sf"

\* The buffer the last LocalInworldTTS.synthesize handed to _write_wav_file
\* and the file that call left at its temporary path.
EncodedNow ==
    {<<e, tmp[last.temp]>> : e \in {h \in HandedNow : h.site = "inworld" /\ h.writer = "wav"}}

\* C4 as claimed: no identifier makes a synthesize entry point raise.
C4_NeverRaises ==
    last.op \in {"inworld", "xtts"} => result.kind = "return"

\* C4, amended: CoquiXTTSService.synthesize returns a result for every
\* voice_name and builds the reference audio of an unrecognized voice from the
\* low group; LocalInworldTTS.synthesize raises ValueError exactly for the
\* model names that are not keys of self.models and returns a result for
\* every other.
C4_RaisesOnlyUnknownModel ==
    /\ last.op = "xtts" =>
        /\ result.kind = "return"
        /\ \A e \in HandedNow :
            e.voice \notin {"p225", "p227", "p229"} =>
                e.base_freq = 110 /\ e.formant_freqs = <<400, 1200, 2200, 3200>>
    /\ last.op = "inworld" =>
        /\ result.kind \in {"return", "raise"}
        /\ result.kind = "raise" <=> last.model_name \notin models
        /\ result.kind = "raise" => HandedNow = {}

\* LocalInworldTTS.synthesize was given a model name it does not hold.
C4_Witness ==
    /\ last.op = "inworld"
    /\ last.model_name = NameP225
    /\ result.kind = "raise"

\* C5: the header _write_wav_file emits has exactly 44 bytes: 'RIFF',
\* 36 + data length, 'WAVE', 'fmt ', 16, format 1, 1 channel, sample_rate,
\* byte rate sample_rate * 2, block align 2, 16 bits, 'data', data length, the
\* data length being the number of sample bytes that follow.
C5_HeaderLayout ==
    \A p \in EncodedNow :
        LET e == p[1]
            f == p[2]
        IN  f.hdr # << >> =>
                /\ Len(f.hdr) = 44
                /\ SubSeq(f.hdr, 1, 4) = <<82, 73, 70, 70>>
                /\ FromLE(f.hdr, 4, 4) = 36 + 2 * e.n
                /\ SubSeq(f.hdr, 9, 12) = <<87, 65, 86, 69>>
                /\ SubSeq(f.hdr, 13, 16) = <<102, 109, 116, 32>>
                /\ FromLE(f.hdr, 16, 4) = 16
                /\ FromLE(f.hdr, 20, 2) = 1
                /\ FromLE(f.hdr, 22, 2) = 1
                /\ FromLE(f.hdr, 24, 4) = e.rate
                /\ FromLE(f.hdr, 28, 4) = e.rate * 2
                /\ FromLE(f.hdr, 32, 2) = 2
                /\ FromLE(f.hdr, 34, 2) = 16
                /\ SubSeq(f.hdr, 37, 40) = <<100, 97, 116, 97>>
                /\ FromLE(f.hdr, 40, 4) = 2 * e.n
                /\ e.ok => FromLE(f.hdr, 40, 4) = f.nbytes

\* _write_wav_file wrote a whole file for a text longer than the floor.
C5_Witness ==
    \E p \in EncodedNow : p[1].ok /\ p[1].n > 48000 /\ Len(p[2].hdr) = 44

\* C6: a file _write_wav_file wrote from N samples has 44 + 2 * N bytes, and
\* decoding it by its header (data length / block align, the sample-rate
\* field) gives back N samples and the sample rate; 72000 samples give
\* 144044 bytes.
C6_RoundTrip ==
    \A p \in EncodedNow :
        LET e == p[1]
            f == p[2]
        IN  e.ok =>
                /\ FileSize(f) = 44 + 2 * e.n
                /\ FromLE(f.hdr, 40, 4) \div FromLE(f.hdr, 32, 2) = e.n
                /\ (FileSize(f) - Len(f.hdr)) \div FromLE(f.hdr, 32, 2) = e.n
                /\ FromLE(f.hdr, 24, 4) = e.rate
                /\ e.n = 72000 => FileSize(f) = 144044

\* A buffer of 72000 samples was encoded.
C6_Witness ==
    \E p \in EncodedNow : p[1].ok /\ p[1].n = 72000 /\ FileSize(p[2]) = 144044

\* round(clamp(s, -1, 1) * 32767) of a fixed-point sample
RoundClamp(x) == DivRound(Clip(x, -Scale, Scale) * 32767, Scale)

\* C7 as claimed: the stored 16-bit value of every sample s is
\* round(clamp(s, -1, 1) * 32767).
C7_RoundsToNearest ==
    \A p \in EncodedNow :
        p[1].ok => \A j \in DOMAIN p[2].pcm : p[2].pcm[j] = RoundClamp(p[1].at[j])

\* C7, amended: for every sample s in [-1, 1] (the callers clip to
\* [-0.9, 0.9]) the stored 16-bit value is s * 32767 truncated toward zero,
\* which is at most 1 away from round(clamp(s, -1, 1) * 32767).
C7_TruncatesTowardZero ==
    \A p \in EncodedNow :
        p[1].ok =>
            \A j \in DOMAIN p[2].pcm :
                LET x == p[1].at[j]
                    v == p[2].pcm[j]
                IN  /\ x >= -Scale /\ x <= Scale
                    /\ Abs(v) * Scale <= Abs(x) * 32767
                    /\ Abs(x) * 32767 < (Abs(v) + 1) * Scale
                    /\ (x >= 0) = (v >= 0) \/ v = 0
                    /\ Abs(v - RoundClamp(x)) <= 1

\* A stored sample whose scaled value has a fractional part of a half or more.
C7_Witness ==
    \E p \in EncodedNow :
        /\ p[1].ok
        /\ \E j \in DOMAIN p[2].pcm :
            /\ p[2].pcm[j] # RoundClamp(p[1].at[j])
            /\ 2 * ((Abs(p[1].at[j]) * 32767) % Scale) >= Scale

\* The number of audio samples the last synthesize generated.
SampleCount ==
    IF last.op = "xtts" THEN last.tts_len
    ELSE IF last.wrote = << >> THEN 0 ELSE last.wrote[1].n

\* C8: on every successful synthesize the returned duration is
\* sample_count / sample_rate, and the result carries audio, format 'wav'
\* and sample_rate.
C8_DurationIsSamplesOverRate ==
    (last.op \in {"inworld", "xtts"} /\ result.kind = "return" /\ result.success) =>
        /\ RatEq(result.dur_num, result.dur_den, SampleCount, result.sample_rate)
        /\ result.format = "wav"
        /\ result.sample_rate = 24000
        /\ result.audio.kind # "none"

\* C9: a failure while generating or encoding is returned by synthesize as a
\* result with success = false and an error string, never as a success:
\* _write_wav_file re-raises, _generate_speech returns False, synthesize
\* returns the failure result.
C9_FailureIsReturned ==
    /\ (last.op = "inworld" /\ last.fault # "none" /\ last.model_name \in models) =>
        /\ result.kind = "return"
        /\ ~result.success
        /\ result.error # ""
    /\ (last.op \in {"inworld", "xtts"} /\ \E e \in HandedNow : ~e.ok) =>
        /\ result.kind = "return"
        /\ ~result.success
        /\ result.error # ""

\* The second write of _write_wav_file failed.
C9_Witness ==
    /\ last.op = "inworld"
    /\ last.fault = "write_data"
    /\ \E e \in HandedNow : e.writer = "wav" /\ ~e.ok
    /\ result.kind = "return" /\ ~result.success

\* C10: after a failed write the target path never holds a partially written
\* WAV file (a header with missing or truncated sample data).
C10_NoPartialFile ==
    \A f \in ByteFiles :
        f.hdr # << >> => f.nbytes = FromLE(f.hdr, 40, 4)

\* C11: at the text-driven call site the duration is max(2.0, 0.1 * len(text))
\* for every text: it is never below 2.0 s, and the buffer handed to the writer
\* is never empty (at least 48000 samples), the empty text included.
C11_DurationFloor ==
    \A e \in HandedNow :
        e.site = "inworld" =>
            /\ 10 * e.n = e.rate * Max(20, last.text_len)
            /\ 10 * e.n >= 20 * e.rate
            /\ e.n >= 48000
            /\ Len(e.at) > 0
            /\ (result.success /\ fullImports) => result.dur_num >= 2 * result.dur_den

\* The empty text was synthesized with success and its file holds the
\* samples of two seconds.
C11_Witness ==
    /\ last.op = "inworld"
    /\ last.text_len = 0
    /\ result.success
    /\ \E e \in HandedNow : e.ok /\ 10 * e.n = 20 * e.rate
    /\ result.audio.frames = 48000 \/ result.audio.nbytes = 96000

\* The position of a voice in the list of XTTSSetup.create_reference_audio.
SetupIndex(voice) == CHOOSE i \in 1..Len(SetupVoices) : SetupVoices[i] = voice

\* The voice CoquiXTTSService._create_default_reference_audio builds with the
\* base frequency of a buffer.
GroupVoice(e) == IF e.base_freq = 220 THEN "p225" ELSE "p226"

\* C12 as claimed: for the same group and duration the three call sites give
\* the same waveform: the buffer a site handed over is the one each other
\* site builds for that group, duration and noise draw, with the four formants.
C12_IdenticalAtAllSites ==
    \A e \in HandedNow :
        /\ (e.site = "inworld" /\ e.n = XttsSamples) =>
            /\ e.formant_freqs = XttsFormantFreqs(GroupVoice(e))
            /\ e.at = XttsAudioTable[GroupVoice(e)][last.draw].at
        /\ (e.site = "xtts" /\ \E i \in 1..Len(SetupVoices) : SetupVoices[i] = e.voice) =>
            e.at = SetupAudioTable[SetupIndex(e.voice)][last.draw].at
        /\ e.site = "setup" => e.at = XttsAudioTable[e.voice][last.draw].at

\* C12, amended: the two reference-audio call sites build the same waveform
\* for a voice (7 harmonics 0.4 / i^0.8, four formants of 0.1, decay 0.4, noise
\* std 0.005, clip to 0.9, 72000 samples at 24000 Hz); the text-driven call
\* site builds another one (5 harmonics 0.3 / i, no formants, decay 0.3, noise
\* std 0.01, the same clip and sample rate), which differs from the reference
\* audio of the same group and duration.
C12_TwoProfiles ==
    \A e \in HandedNow :
        /\ (e.site = "xtts" /\ \E i \in 1..Len(SetupVoices) : SetupVoices[i] = e.voice) =>
            /\ e.at = SetupAudioTable[SetupIndex(e.voice)][last.draw].at
            /\ e.n = SetupSamples /\ e.rate = SetupSampleRate
            /\ e.base_freq = SetupBaseFreq(e.voice)
            /\ e.formant_freqs = SetupFormantFreqs(e.voice)
        /\ e.site = "setup" =>
            /\ e.at = XttsAudioTable[e.voice][last.draw].at
            /\ e.n = XttsSamples /\ e.rate = XttsSampleRate
            /\ e.base_freq = XttsBaseFreq(e.voice)
            /\ e.formant_freqs = XttsFormantFreqs(e.voice)
        /\ e.site \in {"xtts", "setup"} =>
            /\ Len(e.formant_freqs) = 4
            /\ e.at[1] = NoiseAt(last.draw, 0, 50)
        /\ e.site = "inworld" =>
            /\ e.formant_freqs = << >>
            /\ e.at[1] = NoiseAt(last.draw, 0, 100)
            /\ e.rate = XttsSampleRate
            /\ \A j \in DOMAIN e.at : e.at[j] >= -9000 /\ e.at[j] <= 9000
            /\ e.n = XttsSamples =>
                    \E j \in DOMAIN e.at :
                        e.at[j] # XttsAudioTable[GroupVoice(e)][last.draw].at[j]

\* create_reference_audio built five voices after synthesize had built the
\* reference audio of p225.
C12_Witness ==
    /\ last.op = "setup"
    /\ Len(last.wrote) = 5
    /\ \A e \in HandedNow : e.ok /\ e.voice # "p225"
    /\ ref["p225"].kind = "sf"

C14_NoPathWrittenTwice ==
    \A r \in Requests : \A q \in Requests \ {r} : rq[r].wrote \cap rq[q].wrote = {}

\* C15 as claimed: no call of synthesize reads or uses a file that a call
\* which had returned before it began generated.
C15_NoFileReused ==
    \A r \in Requests : \A q \in rq[r].after : rq[r].used \cap rq[q].wrote = {}

\* C15, amended: the temporary output file of a call is read and written by
\* that call alone, but the reference audio is kept: the one file of another
\* call that a call of synthesize reads is reference_audio/<voice_name>.wav of
\* its own voice, and a call that begins after a call that generated this file
\* uses it and does not generate it again.
C15_OnlyReferenceAudioReused ==
    \A r \in Requests : \A q \in Requests \ {r} :
        /\ \A p \in rq[r].used \cap rq[q].wrote : p = RefPath(rq[r].voice)
        /\ rq[r].temp # 0 => TempPath(rq[r].temp) \notin (rq[q].wrote \cup rq[q].used)
        /\ (q \in rq[r].after /\ RefPath(rq[r].voice) \in rq[q].wrote) =>
                RefPath(rq[r].voice) \notin rq[r].wrote

\* A call succeeded with the reference audio that a call which had returned
\* before it began generated.
C15_Witness ==
    \E r \in Requests : \E q \in rq[r].after :
        /\ rq[r].outcome = "success"
        /\ RefPath(rq[r].voice) \in rq[r].used \cap rq[q].wrote

\* C16: in a process of xtts_service.py the model is loaded once and reused:
\* load_model runs once, during the construction of the service and before
\* any command is dispatched; no handler (list_voices, synthesize,
\* check_model, download_model) loads it again; if loading raises, no command
\* is dispatched.
C16_ModelLoadedOnce ==
    /\ proc.loads <= 1
    /\ proc.at = "dispatch" => (proc.loads = 1 /\ proc.model /\ proc.handlers = << >>)
    /\ proc.handlers # << >> =>
        /\ proc.loads = 1
        /\ proc.model
        /\ Len(proc.handlers) = 1
        /\ proc.at = "exit"
    /\ proc.load_raised => (proc.handlers = << >> /\ proc.at = "exit" /\ proc.exit = 1)
    /\ proc.model => ~proc.load_raised

\* The second process on the file system synthesized a voice with success.
C16_Witness ==
    /\ calls = 2
    /\ proc.handlers = <<"synthesize">>
    /\ proc.loads = 1
    /\ result.success
    /\ proc.exit = 0

\* C17: every temporary file a call of synthesize created is deleted when the
\* call has returned, on every path; after any sequence of calls none of
\* their temporary files remains.
C17_TempFileDeleted ==
    last.op \in {"inworld", "xtts"} => \A i \in 1..calls : tmp[i].kind = "none"

\* Whether a request executed a statement, and when it first did.
Did(r, event) == \E i \in DOMAIN rq[r].events : rq[r].events[i] = event

When(r, event) == CHOOSE i \in DOMAIN rq[r].events : rq[r].events[i] = event

\* C18: in CoquiXTTSService.synthesize the reference audio file of the voice
\* exists at the moment model.tts is called: a missing file is created first,
\* and the model call comes after that creation and before the output is
\* written and read back for encoding.
C18_ReferenceBeforeModelCall ==
    \A r \in Requests :
        /\ pc[r] = "tts" => ref[rq[r].voice].kind # "none"
        /\ Did(r, "tts") =>
            /\ ref[rq[r].voice].kind # "none"
            /\ \/ Did(r, "found")
               \/ /\ Did(r, "missing") /\ Did(r, "create")
                  /\ When(r, "missing") < When(r, "create")
                  /\ When(r, "create") < When(r, "tts")
        /\ Did(r, "create") => Did(r, "missing")
        /\ Did(r, "write") => (Did(r, "tts") /\ When(r, "tts") < When(r, "write"))
        /\ Did(r, "read") => (Did(r, "write") /\ When(r, "write") < When(r, "read"))
        /\ (rq[r].temp # 0 /\ ~Did(r, "write")) => tmp[rq[r].temp] = EmptyFile

\* The model was called with the reference audio this request had created,
\* and the output is not written yet.
C18_Witness ==
    \E r \in Requests :
        /\ pc[r] = "write"
        /\ rq[r].events = <<"tempfile", "missing", "create", "tts">>
        /\ RefPath(rq[r].voice) \in rq[r].wrote
        /\ tmp[rq[r].temp] = EmptyFile

\* C19: XTTSSetup.run_setup runs its six steps in the order clone repository,
\* install dependencies, install TTS from source, download model, create
\* reference audio, create service file; it stops at the first step that
\* returns False and runs no later step; it returns True if and only if all
\* six steps returned True.
C19_SixStepsInOrder ==
    setup.script = "xtts" =>
        /\ Len(setup.ran) <= 6
        /\ \A i \in DOMAIN setup.ran :
            /\ setup.ran[i].step =
                    <<"clone_tts_repository", "install_dependencies",
                      "install_tts_from_source", "download_xtts_model_from_huggingface",
                      "create_reference_audio", "create_local_tts_service">>[i]
            /\ i < Len(setup.ran) => setup.ran[i].ok
        /\ setup.ret = "true" <=>
                (Len(setup.ran) = 6 /\ \A i \in DOMAIN setup.ran : setup.ran[i].ok)
        /\ setup.ret = "false" <=>
                (setup.ran # << >> /\ ~setup.ran[Len(setup.ran)].ok /\ setup.ret # "raise")
        /\ setup.ret = "none" => \A i \in DOMAIN setup.ran : setup.ran[i].ok

\* run_setup returned False at create_reference_audio, the fifth step, which
\* had written some of the reference audio.
C19_Witness ==
    /\ setup.script = "xtts"
    /\ setup.ret = "false"
    /\ Len(setup.ran) = 5
    /\ ref["p225"].kind = "sf" /\ ref["p230"].kind = "none"

\* C20: InworldTTSSetup.run_setup treats the model download alone as
\* optional: it returns True and writes setup_completed = true only if every
\* other step (Python version check, GPU check, install dependencies, clone
\* repository, create service, create config) returned True; in every other
\* outcome setup_completed stays false.
C20_OnlyDownloadOptional ==
    (setup.script = "inworld" /\ setup.ret \in {"true", "false"}) =>
        /\ setup.ret = "true" =>
                \A i \in DOMAIN setup.ran :
                    setup.ran[i].step # "Download Models" => setup.ran[i].ok
        /\ setup.config = (IF setup.ret = "true" THEN "true" ELSE "false")

\* C21: InworldTTSSetup.run_setup runs its seven steps in the listed order
\* whatever the earlier steps returned: after a step that returned False the
\* next step is the one to run, and a run that returns has run all seven.
\* When the loop is over, config.json holds setup_completed = false, written
\* by Create Config of this run, and only then is it rewritten with true.
C21_AllSevenStepsRun ==
    setup.script = "inworld" =>
        /\ Len(setup.ran) <= Len(InworldSteps)
        /\ \A i \in DOMAIN setup.ran : setup.ran[i].step = InworldSteps[i]
        /\ setup.ret # "raise" => setup.at = Len(setup.ran) + 1
        /\ setup.ret \in {"true", "false"} => Len(setup.ran) = Len(InworldSteps)
        /\ (setup.ret = "none" /\ setup.at = Len(InworldSteps) + 1) =>
                /\ setup.config = "false"
                /\ setup.ran[Len(InworldSteps)] = [step |-> "Create Config", ok |-> TRUE]
        /\ setup.ret = "true" => setup.config = "true"

\* run_setup returned True after all seven steps although the second and the
\* third returned False; config.json of an earlier run was overwritten.
C21_Witness ==
    /\ setup.script = "inworld"
    /\ setup.ret = "true"
    /\ Len(setup.ran) = 7
    /\ ~setup.ran[2].ok /\ ~setup.ran[3].ok
    /\ setup.ran[7].ok
    /\ setup.config = "true"

\* C22: the XTTS setup CLI exits with status 0 exactly when the selected
\* command succeeded: for clone_repo, install_deps, install_tts,
\* download_model, create_audio and setup when the method returned True, for
\* check when all six checks are True; without a command or with an unknown
\* one it exits with status 1 and has run no setup step.
C22_ExitStatusIffSuccess ==
    setup.exit # -1 =>
        /\ setup.exit \in {0, 1}
        /\ setup.command \in XttsCommands \ {"check", "setup"} =>
                /\ Len(setup.ran) = 1
                /\ setup.exit = 0 <=> (setup.ran[1].ok /\ setup.ret = "true")
        /\ setup.command = "setup" => (setup.exit = 0 <=> setup.ret = "true")
        /\ setup.command = "check" =>
                /\ setup.ran = << >>
                /\ setup.exit = 0 <=> \A k \in DOMAIN setup.results : setup.results[k]
        /\ setup.command \notin XttsCommands =>
                /\ setup.exit = 1
                /\ setup.ran = << >>
                /\ setup.repo = "none"
                /\ \A v \in DOMAIN ref : ref[v].kind = "none"

\* `setup.py check` exited with status 1 with five checks True and the
\* reference audio check False.
C22_Witness ==
    /\ setup.command = "check"
    /\ setup.exit = 1
    /\ setup.results = [tts_repository |-> TRUE, dependencies |-> TRUE,
                        tts_installation |-> TRUE, model |-> TRUE,
                        reference_audio |-> FALSE, service_file |-> TRUE]

\* C23: a process `local_tts_service.py synthesize <text>`, with the text as
\* its only argument, runs synthesize with model_name 'tts-1' and language
\* 'en' and does not leave with the usage message and status 1.
C23_TextAloneSynthesizes ==
    (/\ proc.at = "exit"
     /\ Len(proc.argv) = 3
     /\ proc.argv[1] = "local_tts_service.py"
     /\ proc.argv[2] = "synthesize") =>
        /\ proc.handlers = <<"synthesize">>
        /\ last.op = "inworld"
        /\ last.model_name = NameTts1
        /\ last.language = "en"

\* The voices of the buffers a call handed to sf.write, in order.
WroteVoices(call) == [k \in DOMAIN call.wrote |-> call.wrote[k].voice]

\* C24: a call of XTTSSetup.create_reference_audio hands no buffer to sf.write
\* for a voice whose file exists and leaves that file as it was, so that a
\* second run changes nothing the first one wrote; after it returned True the
\* files of all six voices p225..p230 exist.  A call of
\* CoquiXTTSService.download_model writes the files of the six voices in
\* order whether they exist or not: all six when it succeeds, those up to
\* the failing sf.write otherwise.
C24_CreateKeepsDownloadOverwrites ==
    [][calls' = calls + 1 =>
        /\ last'.op = "setup" =>
            /\ \A i \in DOMAIN SetupVoices :
                LET v == SetupVoices[i]
                IN  ref[v].kind # "none" =>
                        /\ ref'[v] = ref[v]
                        /\ \A k \in DOMAIN last'.wrote : last'.wrote[k].voice # v
            /\ \A k \in DOMAIN last'.wrote : ref[last'.wrote[k].voice].kind = "none"
            /\ result'.success =>
                    \A i \in DOMAIN SetupVoices : ref'[SetupVoices[i]].kind # "none"
        /\ last'.op = "download_model" =>
            /\ \E n \in 1..Len(DownloadVoices) :
                    WroteVoices(last') = SubSeq(DownloadVoices, 1, n)
            /\ result'.success =>
                    /\ WroteVoices(last') = DownloadVoices
                    /\ \A k \in DOMAIN last'.wrote : last'.wrote[k].ok
      ]_vars

\* create_reference_audio ran after a run that had failed at the third
\* voice, wrote p227..p230 only and returned True; all six files exist.
C24_Witness ==
    /\ calls = 2
    /\ last.op = "setup"
    /\ result.success
    /\ WroteVoices(last) = <<"p227", "p228", "p229", "p230">>
    /\ \A i \in DOMAIN SetupVoices : ref[SetupVoices[i]].kind = "sf"

\* C25: when clone_tts_repository returns False, because git clone left with
\* another status than 0 or git is not installed, a TTS repository directory
\* that existed before the call is still there after it.
C25_RepositoryKeptOnFailure ==
    [][(/\ setup.script = "xtts" /\ setup.at = 1 /\ setup.ret = "none"
        /\ setup'.ret = "false"
        /\ setup.repo # "none") => setup'.repo # "none"]_vars

\* The URLs of the call that answer with status 200.
Answered200 ==
    {i \in DOMAIN logo.urls : ~logo.urls[i].raises /\ logo.urls[i].status_code = 200}

\* C26 as claimed: download_logo requests the provider's URLs in list order and stops
\* at the first that answers with status 200: it then has written exactly
\* one file, <provider_key>.<ext>, and returns True.  It returns False, and
\* then has written no file, if and only if no URL answered 200 (by another
\* status or by an exception), having requested every URL: an exception at a
\* URL that is not the last never ends the loop.
C26_FirstAnswerWins ==
    logo.at > 0 =>
        /\ logo.tried = [k \in 1..Len(logo.tried) |-> k]
        /\ logo.ret = "none" =>
                /\ Len(logo.tried) = logo.at - 1
                /\ \A k \in 1..Len(logo.tried) : k \notin Answered200
        /\ logo.ret = "true" =>
                /\ Answered200 # {}
                /\ \A k \in Answered200 : Len(logo.tried) <= k
                /\ Len(logo.tried) \in Answered200
                /\ Len(logo.wrote) = 1
                /\ logo.files =
                        {[name |-> <<logo.key,
                                     Extension(logo.urls[Len(logo.tried)].content_type)>>,
                          whole |-> TRUE]}
        /\ logo.ret = "false" <=> (logo.ret # "none" /\ Answered200 = {})
        /\ logo.ret = "false" =>
                /\ logo.wrote = << >> /\ logo.files = {}
                /\ Len(logo.tried) = Len(logo.urls)

\* C26, amended: download_logo requests the provider's URLs in list order
\* and stops at the first that answers with status 200 and whose file is
\* saved: that file, <provider_key>.<ext>, is then complete and the call
\* returns True.  An exception of open or f.write is handled as one of
\* requests.get is: the loop goes on to the next URL, and after the last one
\* the call returns False.  It returns False if and only if no URL answered
\* 200 and was saved, having requested every URL, and then output_dir holds
\* no complete file, though a failed f.write may have left one cut short.
C26_FirstSavedAnswerWins ==
    logo.at > 0 =>
        /\ logo.tried = [k \in 1..Len(logo.tried) |-> k]
        /\ logo.unsaved \subseteq Answered200
        /\ logo.ret = "none" =>
                /\ Len(logo.tried) = logo.at - 1
                /\ \A k \in 1..Len(logo.tried) : k \in Answered200 => k \in logo.unsaved
        /\ logo.ret = "true" =>
                LET n == Len(logo.tried)
                    filename == <<logo.key, Extension(logo.urls[n].content_type)>>
                IN  /\ n \in Answered200 \ logo.unsaved
                    /\ \A k \in 1..(n - 1) : k \in Answered200 => k \in logo.unsaved
                    /\ logo.wrote[Len(logo.wrote)] = filename
                    /\ [name |-> filename, whole |-> TRUE] \in logo.files
                    /\ Len(logo.wrote) <= 1 + Cardinality(logo.unsaved)
        /\ logo.ret = "false" <=> (logo.ret # "none" /\ Answered200 \subseteq logo.unsaved)
        /\ logo.ret = "false" =>
                /\ Len(logo.tried) = Len(logo.urls)
                /\ \A f \in logo.files : ~f.whole
        /\ (logo.ret # "none" /\ logo.unsaved = {}) =>
                /\ Len(logo.wrote) = (IF logo.ret = "true" THEN 1 ELSE 0)
                /\ Cardinality(logo.files) = Len(logo.wrote)

\* The first URL raised, the second answered 200 but its f.write raised and
\* left openai.png cut short, the third answered 200 and openai.svg was saved.
C26_Witness ==
    /\ logo.ret = "true"
    /\ logo.tried = <<1, 2, 3>>
    /\ logo.urls[1].raises
    /\ logo.unsaved = {2}
    /\ logo.files = {[name |-> <<"openai", "png">>, whole |-> FALSE],
                     [name |-> <<"openai", "svg">>, whole |-> TRUE]}

====
